---- MODULE Spec2Model ----
(***************************************************************************)
(* Firebase-NodeJS: the Connection state machine (src/connection) driven   *)
(* by the ".info/connected" listener, its 30 s disconnect timers, and the  *)
(* BaseClient session life cycle whose events subscribe / unsubscribe it.  *)
(*                                                                         *)
(* The repository carries the Connection class in two behaviours:          *)
(*   revision "A": connection.ts 23-80 and app.ts 64-121 (same code up to  *)
(*                 the enum's name): subscribes on nextTick only, the      *)
(*                 timer callback sets _state and emits, and               *)
(*                 removeConnectionState forgets the handle;               *)
(*   revision "B": connection.ts 104-154: subscribes on nextTick and on    *)
(*                 every "sign-in", unsubscribes on "sign-out", the timer  *)
(*                 callback only emits, removeConnectionState keeps the    *)
(*                 handle.                                                 *)
(* The revision is fixed at construction and never changes.                *)
(*                                                                         *)
(* The Query Engine (class RTDB, part_004) is checked under QSpec, RSpec   *)
(* and PSpec; the construction of an RTDB on a client under KSpec; the     *)
(* client classes (BaseClient, AdminClient and both revisions of Client,   *)
(* client.ts 37-175 and 202-300) under CSpec.                              *)
(***************************************************************************)
EXTENDS Integers, Sequences, FiniteSets, TLC

\* ---------------------------------------------------------------- bounds
MaxSignals == 3          \* liveness signals delivered in one behaviour
MaxSubscriptions == 2    \* onValue registrations made in one behaviour
MaxPendingSignIns == 2   \* wrapSignIn calls awaiting the backend at once

\* ------------------------------------------------------------- constants
Undefined == 0           \* JavaScript's undefined for handles and timer ids
DisconnectTimeout == 30000   \* the delay of every disconnect timer, in ms

Revisions == {"A", "B"}
ConnectionState == {"DISCONNECTED", "CONNECTING", "RE_CONNECTING", "CONNECTED"}
SignState == {"NOT_YET", "SIGN_IN", "SIGN_OUT", "SIGNED_IN", "ERROR"}
\* what snapshot.val() of ".info/connected" can be: only "true" is === true
SnapshotVal == {"true", "false", "null"}
RTDBEvents == {"connected", "connecting", "disconnect", "disconnected", "re-connecting", "log"}

VARIABLES
  revision,                   \* which Connection class is loaded
  _state,                     \* Connection._state
  firstConnectionEtablished,  \* Connection.firstConnectionEtablished
  subscriptionCallback,       \* Connection.subscriptionCallback: listener id or Undefined
  timeoutID,                  \* Connection.timeoutID: timer id or Undefined
  listeners,                  \* backend: ids of the attached ".info/connected" listeners
  subscribed,                 \* number of onValue registrations so far (ids are 1..subscribed)
  timers,                     \* event loop: pending timers [id, ms], in firing order
  armed,                      \* number of setTimeout calls so far (ids are 1..armed)
  tickPending,                \* the constructor's nextTick callback has not run yet
  signState,                  \* BaseClient._signState
  appDeleted,                 \* BaseClient._appDeleted
  pendingSignIns,             \* wrapSignIn calls awaiting signInFn()
  emitted,                    \* RTDB events emitted by the last step, in order
  last,                       \* the last step: operation and argument
  tornDown,                   \* history: removeConnectionState ran and no subscription followed
  trace,                      \* history: signals handled, _state assignments, events emitted
  call,                       \* the last Query Engine call: operation and arguments
  result,                     \* how that call ended and the backend calls it made
  attached,                   \* backend: the query listeners registered and not detached
  online,                     \* backend: the transport is not forced offline
  wrapped,                    \* the client object is held by a Client (client.ts 202-300)
  clientClass,                \* class of the object holding _signState, or "undefined"
  app,                        \* its _app: "undefined", "App" or "AdminApp"
  appInitialised,             \* its _appInitialised
  initPending,                \* AdminClient: the constructor's nextTick(initClient) has not run
  database,                   \* RTDB._database has been obtained
  signOutPending,             \* Client.signOut calls awaiting the client's signOut
  orphaned                    \* sign-ins still awaited on clients the Client has replaced

vars == <<revision, _state, firstConnectionEtablished, subscriptionCallback, timeoutID,
          listeners, subscribed, timers, armed, tickPending, signState, appDeleted,
          pendingSignIns, emitted, last, tornDown, trace, call, result, attached, online,
          wrapped, clientClass, app, appInitialised, initPending, database, signOutPending,
          orphaned>>

connVars == <<_state, firstConnectionEtablished, subscriptionCallback, timeoutID,
              listeners, subscribed, timers, armed>>
clientVars == <<signState, appDeleted, pendingSignIns>>
qVars == <<call, result, attached, online>>
lifeVars == <<wrapped, clientClass, app, appInitialised, initPending, database,
              signOutPending, orphaned>>

\* ---------------------------------------------------------------- helpers
\* setTimeout(cb, ms): all timers here share one delay, so they fire in arming order
setTimeout(ts, id, ms) == Append(ts, [id |-> id, ms |-> ms])

\* clearTimeout(id): a pending timer is cancelled, a fired or cleared one is a no-op
clearTimeout(ts, id) == SelectSeq(ts, LAMBDA t: t.id # id)

RECURSIVE Emits(_)
Emits(es) == IF es = <<>> THEN <<>> ELSE <<<<"emit", Head(es)>>>> \o Emits(Tail(es))

\* this.database.emit("log", ...) exists in revision A only
Log == IF revision = "A" THEN <<"log">> ELSE <<>>

\* ----------------------------------------------------------- Query Engine
\* The RTDB class (unnamed/part_004). JavaScript values are records: t is the
\* type tag, n the integer part of a number, s the text as a sequence of
\* tokens. A token is one character where characters matter (paths, number
\* strings) and a whole word for names ("set", "toString").
JS(t, n, s) == [t |-> t, n |-> n, s |-> s]
undefined == JS("undefined", 0, <<>>)
null == JS("null", 0, <<>>)
Bool(b) == JS("boolean", 0, IF b THEN <<"true">> ELSE <<"false">>)
Num(n) == JS("number", n, <<>>)            \* the integer n
Half(n) == JS("number", n, <<".5">>)       \* n + 0.5
NaN == JS("number", 0, <<"NaN">>)
Str(s) == JS("string", 0, s)
Obj(label) == JS("object", 0, <<label>>)   \* "{}" is a plain object, "[]" an array
Fn(name) == JS("function", 0, <<name>>)

\* the typeof operator: null is an "object"
typeof(v) == IF v.t = "null" THEN "object" ELSE v.t

\* a ToBoolean for which only undefined is falsy
Truthy_DefinedOnly(v) == v.t # "undefined"

\* ToBoolean: undefined, null, false, 0, NaN and "" are falsy
Truthy(v) ==
  CASE v.t \in {"undefined", "null"} -> FALSE
    [] v.t = "boolean" -> v.s = <<"true">>
    [] v.t = "number" -> ~(v.s = <<"NaN">> \/ (v.n = 0 /\ v.s = <<>>))
    [] v.t = "string" -> v.s # <<>>
    [] OTHER -> TRUE

isInteger(v) == v.t = "number" /\ v.s = <<>>
Positive(v) == v.t = "number" /\ v.s # <<"NaN">> /\ (v.n > 0 \/ (v.n = 0 /\ v.s = <<".5">>))

\* ToPropertyKey for the left operand of `in`
ToPropertyKey(v) ==
  CASE v.t = "string" -> v.s
    [] v.t = "number" /\ v.s = <<>> -> <<ToString(v.n)>>
    [] v.t = "boolean" -> v.s
    [] OTHER -> <<v.t>>

\* the property names every object inherits from Object.prototype
ObjectPrototype ==
  {"constructor", "toString", "toLocaleString", "valueOf", "hasOwnProperty",
   "isPrototypeOf", "propertyIsEnumerable", "__proto__"}

\* a string enum compiles to an object whose own keys are the member names
ListenerMap ==
  [value |-> "onValue", child_added |-> "onChildAdded", child_changed |-> "onChildChanged",
   child_moved |-> "onChildMoved", child_removed |-> "onChildRemoved"]

\* a numeric enum compiles to an object with the names and the reverse mapping:
\* QueryMethodMap.set = 0 and QueryMethodMap[0] = "set"
QueryMethodMap == <<"set", "push", "update", "remove", "setPriority", "setWithPriority">>
OnDisconnectMethodMap == <<"cancel", "set", "update", "remove", "setWithPriority">>
OwnKeys(enum) == {enum[i] : i \in 1..Len(enum)} \cup {ToString(i - 1) : i \in 1..Len(enum)}

\* the `in` operator: own keys and inherited ones
in(key, ownKeys) == \E k \in ownKeys \cup ObjectPrototype : ToPropertyKey(key) = <<k>>

\* the outcome of a validator: it returns a value or throws. "TypeError",
\* "Error" and "RTDBError" are thrown by the class's own throw statements,
\* "RuntimeTypeError" is a TypeError the JavaScript engine throws (a call of
\* something that is no function, a property read on null), "BackendError" is
\* thrown or rejected by the backend SDK
Return(v) == [err |-> "none", msg |-> "", ret |-> v]
Throw(e, m) == [err |-> e, msg |-> m, ret |-> undefined]

WhiteSpace == {" ", "\t"}
RECURSIVE trimStart(_)
trimStart(s) == IF s # <<>> /\ Head(s) \in WhiteSpace THEN trimStart(Tail(s)) ELSE s
RECURSIVE trimEnd(_)
trimEnd(s) ==
  IF s # <<>> /\ s[Len(s)] \in WhiteSpace THEN trimEnd(SubSeq(s, 1, Len(s) - 1)) ELSE s
trim(s) == trimEnd(trimStart(s))

PathForbidden == {".", "#", "$", "[", "]"}     \* the class /[.#$\[\]]/

\* a path check that does not look for the forbidden characters
checkPath_NoFormat(path, empty) ==
  IF empty /\ path = undefined THEN Return(undefined)
  ELSE IF ~empty /\ path = undefined THEN Throw("TypeError", "The PATH do not exist!")
  ELSE IF ~empty /\ ~Truthy(path) THEN Throw("TypeError", "PATH must be non-empty string!")
  ELSE IF typeof(path) # "string" THEN Throw("TypeError", "PATH must be a string!")
  ELSE IF trim(path.s) # <<>> THEN Return(Str(trim(path.s))) ELSE Return(undefined)

\* checkPath(path, empty): `path.trim() || undefined` is what it returns
checkPath(path, empty) ==
  IF empty /\ path = undefined THEN Return(undefined)
  ELSE IF ~empty /\ path = undefined THEN Throw("TypeError", "The PATH do not exist!")
  ELSE IF ~empty /\ ~Truthy(path) THEN Throw("TypeError", "PATH must be non-empty string!")
  ELSE IF typeof(path) # "string" THEN Throw("TypeError", "PATH must be a string!")
  ELSE IF \E i \in 1..Len(path.s) : path.s[i] \in PathForbidden
       THEN Throw("Error", "PATH must not contain")
  ELSE IF trim(path.s) # <<>> THEN Return(Str(trim(path.s))) ELSE Return(undefined)

\* checkQueryMethod(method): `method in QueryMethodMap`
checkQueryMethod(method) ==
  IF method = undefined THEN Throw("TypeError", "Query Method do not exist!")
  ELSE IF typeof(method) # "string" THEN Throw("TypeError", "Query Method must be a string!")
  ELSE IF in(method, OwnKeys(QueryMethodMap)) THEN Return(method)
  ELSE Throw("Error", "Query Method must be one of")

\* checkOnDisconnectQueryMethod(method): `method in OnDisconnectMethodMap`
checkOnDisconnectQueryMethod(method) ==
  IF method = undefined THEN Throw("TypeError", "On Disconnect Query Method do not exist!")
  ELSE IF typeof(method) # "string"
       THEN Throw("TypeError", "On Disconnect Query Method must be a string!")
  ELSE IF in(method, OwnKeys(OnDisconnectMethodMap)) THEN Return(method)
  ELSE Throw("Error", "On Disconnect Query Method must be one of")

\* Number(string) for decimal literals: blanks are trimmed, "" is 0, an optional
\* sign, digits with an optional fraction; everything else is NaN. (Exponents,
\* hexadecimal literals and "Infinity" are outside the alphabet used here.)
DigitChars == <<"0", "1", "2", "3", "4", "5", "6", "7", "8", "9">>
IsDigits(s) == \A i \in 1..Len(s) : \E d \in 1..Len(DigitChars) : DigitChars[d] = s[i]
DigitVal(c) == (CHOOSE d \in 1..Len(DigitChars) : DigitChars[d] = c) - 1
RECURSIVE IntOf(_)
IntOf(s) == IF s = <<>> THEN 0 ELSE IntOf(SubSeq(s, 1, Len(s) - 1)) * Len(DigitChars) + DigitVal(s[Len(s)])
ToNumber(str) ==
  LET t == trim(str)
      neg == t # <<>> /\ Head(t) = "-"
      u == IF t # <<>> /\ Head(t) \in {"-", "+"} THEN Tail(t) ELSE t
      dots == {i \in 1..Len(u) : u[i] = "."}
  IN  IF t = <<>> THEN Num(0)
      ELSE IF u # <<>> /\ IsDigits(u) THEN Num(IF neg THEN 0 - IntOf(u) ELSE IntOf(u))
      ELSE IF Cardinality(dots) = 1 /\ Len(u) > 1
        THEN LET p == CHOOSE i \in dots : TRUE
                 whole == SubSeq(u, 1, p - 1)
                 fract == SubSeq(u, p + 1, Len(u))
             IN  IF ~(IsDigits(whole) /\ IsDigits(fract)) THEN NaN
                 ELSE IF \A i \in 1..Len(fract) : fract[i] = "0"
                   THEN Num(IF neg THEN 0 - IntOf(whole) ELSE IntOf(whole))
                 ELSE Half(IF neg THEN 0 - IntOf(whole) - 1 ELSE IntOf(whole))
      ELSE NaN

\* String(n) for an integer n: its decimal digits
RECURSIVE String(_)
String(n) ==
  IF n < 0 THEN <<"-">> \o String(0 - n)
  ELSE IF n < Len(DigitChars) THEN <<DigitChars[n + 1]>>
  ELSE String(n \div Len(DigitChars)) \o <<DigitChars[(n % Len(DigitChars)) + 1]>>

\* a priority check that does not convert strings
checkPriority_NumbersOnly(priority) ==
  IF priority = null THEN Return(priority)
  ELSE IF priority = undefined THEN Throw("TypeError", "The Priority do not exist!")
  ELSE IF typeof(priority) = "number" /\ isInteger(priority) /\ Positive(priority)
       THEN Return(priority)
  ELSE Throw("TypeError", "The priority must be an INTEGER > 0!")

\* a priority check that accepts every number
checkPriority_AnyNumber(priority) ==
  IF priority = null THEN Return(priority)
  ELSE IF priority = undefined THEN Throw("TypeError", "The Priority do not exist!")
  ELSE IF typeof(priority) = "number" THEN Return(priority)
  ELSE IF typeof(priority) = "string" /\ isInteger(ToNumber(priority.s))
          /\ Positive(ToNumber(priority.s))
       THEN Return(ToNumber(priority.s))
  ELSE Throw("TypeError", "The priority must be an INTEGER > 0!")

\* checkPriority(priority)
checkPriority(priority) ==
  IF priority = null THEN Return(priority)
  ELSE IF priority = undefined THEN Throw("TypeError", "The Priority do not exist!")
  ELSE IF typeof(priority) = "number" /\ isInteger(priority) /\ Positive(priority)
       THEN Return(priority)
  ELSE IF typeof(priority) = "string" /\ isInteger(ToNumber(priority.s))
          /\ Positive(ToNumber(priority.s))
       THEN Return(ToNumber(priority.s))
  ELSE Throw("TypeError", "The priority must be an INTEGER > 0!")

\* one call of the backend SDK: the function and its arguments
Call(f, args) == [f |-> f, args |-> args]

\* a query constraint set is an object: its entries [method, value] in
\* Object.entries order, value_value and value_key being value.value and
\* value.key when value is an object
Entry(method, value, value_value, value_key) ==
  [method |-> method, value |-> value, value_value |-> value_value, value_key |-> value_key]
Constraints(entries) == [t |-> "object", entries |-> entries]
NotConstraints(t) == [t |-> t, entries |-> <<>>]     \* undefined, null, a string

RangeMethods == {"endAt", "endBefore", "equalTo", "startAfter", "startAt"}
LimitMethods == {"limitToFirst", "limitToLast"}
OrderMethods == {"orderByKey", "orderByPriority", "orderByValue"}

\* a check whose switch has no default branch: an unknown key is skipped
checkConstraint_NoDefault(e) ==
  IF e.method \in RangeMethods THEN
       IF typeof(e.value) # "object" THEN Throw("TypeError", "constraint must be an object!")
       ELSE IF e.value = null THEN Throw("RuntimeTypeError", "Cannot read properties of null")
       ELSE IF e.value_value = undefined
         THEN Throw("TypeError", "constraint must be an object containing value as key.")
       ELSE IF typeof(e.value_value) \notin {"string", "boolean", "number"} /\ e.value_value # null
         THEN Throw("TypeError", "constraint value must be a boolean, number, string or null!")
       ELSE IF e.value_key = null \/ (Truthy(e.value_key) /\ typeof(e.value_key) # "string")
         THEN Throw("TypeError", "constraint key must be a string!")
       ELSE Return(undefined)
  ELSE IF e.method \in LimitMethods THEN
       IF typeof(e.value) # "number" THEN Throw("TypeError", "constraint must be a number!")
       ELSE Return(undefined)
  ELSE IF e.method = "orderByChild" THEN
       IF typeof(e.value) # "string" THEN Throw("TypeError", "constraint must be a string!")
       ELSE Return(undefined)
  ELSE IF e.method \in OrderMethods THEN
       IF e.value # null THEN Throw("TypeError", "constraint must be null!")
       ELSE Return(undefined)
  ELSE Return(undefined)

\* the switch of applyQueryConstraints for one entry, up to its backend call
checkConstraint(e) ==
  IF e.method \in RangeMethods THEN
       IF typeof(e.value) # "object" THEN Throw("TypeError", "constraint must be an object!")
       ELSE IF e.value = null THEN Throw("RuntimeTypeError", "Cannot read properties of null")
       ELSE IF e.value_value = undefined
         THEN Throw("TypeError", "constraint must be an object containing value as key.")
       ELSE IF typeof(e.value_value) \notin {"string", "boolean", "number"} /\ e.value_value # null
         THEN Throw("TypeError", "constraint value must be a boolean, number, string or null!")
       ELSE IF e.value_key = null \/ (Truthy(e.value_key) /\ typeof(e.value_key) # "string")
         THEN Throw("TypeError", "constraint key must be a string!")
       ELSE Return(undefined)
  ELSE IF e.method \in LimitMethods THEN
       IF typeof(e.value) # "number" THEN Throw("TypeError", "constraint must be a number!")
       ELSE Return(undefined)
  ELSE IF e.method = "orderByChild" THEN
       IF typeof(e.value) # "string" THEN Throw("TypeError", "constraint must be a string!")
       ELSE Return(undefined)
  ELSE IF e.method \in OrderMethods THEN
       IF e.value # null THEN Throw("TypeError", "constraint must be null!")
       ELSE Return(undefined)
  ELSE Throw("Error", "Query constraint received is invalid!")

\* dbRef[method](...) resp. database[method](...) for a checked entry
constraintCall(e) ==
  IF e.method \in RangeMethods THEN Call(e.method, <<e.value_value, e.value_key>>)
  ELSE IF e.method \in OrderMethods THEN Call(e.method, <<>>)
  ELSE Call(e.method, <<e.value>>)

\* the backend SDK refuses, when the constraint is applied, a range key that
\* is no string and a limit that is no positive integer
sdkRefuses(e) ==
  \/ e.method \in RangeMethods /\ e.value_key.t \notin {"undefined", "string"}
  \/ e.method \in LimitMethods /\ ~(isInteger(e.value) /\ Positive(e.value))

\* the for loop of applyQueryConstraints: the entries are checked and applied
\* one after the other, and the first failing check or backend call throws
RECURSIVE applyEntries(_)
applyEntries(entries) ==
  IF entries = <<>> THEN [err |-> "none", msg |-> "", calls |-> <<>>]
  ELSE LET c == checkConstraint(Head(entries)) IN
       IF c.err # "none" THEN [err |-> c.err, msg |-> c.msg, calls |-> <<>>]
       ELSE IF sdkRefuses(Head(entries))
         THEN [err |-> "BackendError", msg |-> "constraint failed: invalid argument",
               calls |-> <<constraintCall(Head(entries))>>]
       ELSE LET rest == applyEntries(Tail(entries)) IN
            [err |-> rest.err, msg |-> rest.msg,
             calls |-> <<constraintCall(Head(entries))>> \o rest.calls]

\* applyQueryConstraints(constraints = {}, dbRef?)
applyQueryConstraints(constraints) ==
  IF constraints.t = "undefined" THEN [err |-> "none", msg |-> "", calls |-> <<>>]
  ELSE IF constraints.t \notin {"object", "null"}
       THEN [err |-> "TypeError", msg |-> "Query Constraint must be an Object!", calls |-> <<>>]
  ELSE IF constraints.t = "null"
       THEN [err |-> "RuntimeTypeError", msg |-> "Cannot convert undefined or null to object",
             calls |-> <<>>]
  ELSE applyEntries(constraints.entries)

\* what a Query Engine call did: how it ended (sync: thrown or returned by the
\* call itself; otherwise through the promise), the backend SDK calls it made in
\* order, and the value it returned (ret: the handle of a subscription)
Result(outcome, msg, sync, backend) ==
  [outcome |-> outcome, msg |-> msg, sync |-> sync, backend |-> backend, ret |-> undefined]
Returning(res, v) == [res EXCEPT !.ret = v]
NoResult == Result("none", "", TRUE, <<>>)
Thrown(c, backend) == Result(c.err, c.msg, TRUE, backend)
Rejected(c, backend) == Result(c.err, c.msg, FALSE, backend)
\* a settling that swallows the backend's failure
Settled_Swallowed(fails, backend) == Result("ok", "", FALSE, backend)
Settled(fails, backend) == Result(IF fails THEN "BackendError" ELSE "ok", "", FALSE, backend)

\* admin: `pathParsed ? database.ref().child(pathParsed) : database.ref()`
adminRefOrRoot(pathParsed) ==
  IF Truthy(pathParsed) THEN <<Call("ref", <<>>), Call("child", <<pathParsed>>)>>
  ELSE <<Call("ref", <<>>)>>
\* admin: `database.ref().child(pathParsed)`
adminRef(pathParsed) == <<Call("ref", <<>>), Call("child", <<pathParsed>>)>>
\* client: `ref(database, pathParsed)`; without a path it is the root reference
clientRef(pathParsed) == <<Call("ref", <<pathParsed>>)>>

\* the event types the admin SDK's on() and off() accept
EventTypes == DOMAIN ListenerMap
IsEventType(listener) == \E k \in EventTypes : ToPropertyKey(listener) = <<k>>
EventFunction(listener) == ListenerMap[CHOOSE k \in EventTypes : ToPropertyKey(listener) = <<k>>]

\* a registered query listener, and the unsubscribe closure the client SDK
\* returns for it (the admin SDK returns the callback itself)
\* query: the constraint calls that made the query the listener is attached to
Registration(listener, pathParsed, callback, query) ==
  [kind |-> ToPropertyKey(listener), path |-> pathParsed, cb |-> callback, query |-> query]
Unsubscribe(reg) ==
  JS("function", 0, <<"unsubscribe">> \o reg.kind \o reg.cb.s \o reg.path.s
                    \o [i \in 1..Len(reg.query) |-> reg.query[i].f])

\* doGetQuery(path, constraints)
doGetQuery(admin, path, constraints, fails) ==
  LET p == checkPath(path, TRUE)
      r == IF admin THEN adminRefOrRoot(p.ret) ELSE clientRef(p.ret)
      q == applyQueryConstraints(constraints)
  IN  IF p.err # "none" THEN Thrown(p, <<>>)
      ELSE IF q.err # "none" THEN Thrown(q, r \o q.calls)
      ELSE Settled(fails, r \o q.calls
                          \o (IF admin THEN <<>> ELSE <<Call("query", <<>>)>>)
                          \o <<Call("get", <<>>)>>)

\* a listener check that looks at the member names only
listenerCheck_NamesOnly(listener) ==
  IF IsEventType(listener) THEN Return(listener)
  ELSE Throw("Error", "The listener is invalid!")

\* `if (!(listener in ListenerMap)) throw ...`
listenerCheck(listener) ==
  IF in(listener, DOMAIN ListenerMap) THEN Return(listener)
  ELSE Throw("Error", "The listener is invalid!")

\* doSubscriptionQuery(listener, callback, path, constraints)
doSubscriptionQuery(admin, listener, callback, path, constraints) ==
  LET p == checkPath(path, TRUE)
      l == listenerCheck(listener)
      r == IF admin THEN adminRefOrRoot(p.ret) ELSE clientRef(p.ret)
      q == applyQueryConstraints(constraints)
  IN  IF p.err # "none" THEN Thrown(p, <<>>)
      ELSE IF typeof(callback) # "function"
        THEN Thrown(Throw("TypeError", "The callback must be a function"), <<>>)
      ELSE IF l.err # "none" THEN Thrown(l, <<>>)
      ELSE IF q.err # "none" THEN Thrown(q, r \o q.calls)
      ELSE IF admin
        THEN IF IsEventType(listener)
             THEN Returning(Result("ok", "", TRUE,
                                   r \o q.calls \o <<Call("on", <<listener, callback>>)>>),
                            callback)
             ELSE Result("BackendError", "on failed: invalid event type", TRUE,
                         r \o q.calls \o <<Call("on", <<listener, callback>>)>>)
      ELSE IF IsEventType(listener)
             THEN Returning(Result("ok", "", TRUE, r \o q.calls \o <<Call("query", <<>>)>>
                                         \o <<Call(EventFunction(listener), <<callback>>)>>),
                            Unsubscribe(Registration(listener, p.ret, callback, q.calls)))
             ELSE Result("RuntimeTypeError", "database[...] is not a function", TRUE,
                         r \o q.calls \o <<Call("query", <<>>)>>)

\* doUnSubscriptionQuery(listener, unsubscriptionCallback, path)
doUnSubscriptionQuery(admin, listener, unsubscriptionCallback, path) ==
  LET p == checkPath(path, TRUE)
      l == listenerCheck(listener)
  IN  IF p.err # "none" THEN Thrown(p, <<>>)
      ELSE IF typeof(unsubscriptionCallback) # "function"
        THEN Thrown(Throw("TypeError", "The unsubscriptionCallback must be a function"), <<>>)
      ELSE IF l.err # "none" THEN Thrown(l, <<>>)
      ELSE IF admin
        THEN IF IsEventType(listener)
             THEN Result("ok", "", TRUE, adminRefOrRoot(p.ret)
                                         \o <<Call("off", <<listener, unsubscriptionCallback>>)>>)
             ELSE Result("BackendError", "off failed: invalid event type", TRUE,
                         adminRefOrRoot(p.ret)
                         \o <<Call("off", <<listener, unsubscriptionCallback>>)>>)
      ELSE Result("ok", "", TRUE, <<Call("unsubscribe", <<unsubscriptionCallback>>)>>)

\* an off() that looks at the listeners of the plain reference only
detachedBy_PlainReferenceOnly(admin, listener, unsubscriptionCallback, pathParsed, regs) ==
  IF admin
  THEN {g \in regs : g.kind = ToPropertyKey(listener) /\ g.path = pathParsed
                     /\ g.cb = unsubscriptionCallback /\ g.query = <<>>}
  ELSE {g \in regs : Unsubscribe(g) = unsubscriptionCallback}

\* the listeners a successful doUnSubscriptionQuery detaches: admin off() is
\* called on the plain reference (databaseRef, without the constraints) and
\* removes the registrations of that event type and callback from every query
\* at that location; the client calls the handle, which detaches the
\* registration it belongs to
detachedBy(admin, listener, unsubscriptionCallback, pathParsed, regs) ==
  IF admin
  THEN {g \in regs : g.kind = ToPropertyKey(listener) /\ g.path = pathParsed
                     /\ g.cb = unsubscriptionCallback}
  ELSE {g \in regs : Unsubscribe(g) = unsubscriptionCallback}

\* the Object.prototype members that return when called as a method
InheritedCallable == ObjectPrototype \ {"constructor", "__proto__"}

\* the backend call that carries out a write, after the reference was built;
\* the admin SDK's child() throws for a path that is no string
dispatch(admin, pathParsed, refCalls, c, fails) ==
  IF admin /\ pathParsed = undefined
  THEN Result("BackendError", "child failed: invalid path", FALSE, adminRef(pathParsed))
  ELSE Settled(fails, refCalls \o <<c>>)

\* doWriteQuery(method, path, ...args): an async function, so every throw is a
\* rejected promise. interop: the build's `database` namespace object inherits
\* from Object.prototype (CommonJS interop) or not (ES module namespace)
doWriteQuery(admin, method, path, value, priority, fails, interop) ==
  LET m == checkQueryMethod(method)
      p == checkPath(path, FALSE)
      methodParsed == m.ret.s[1]
      r == IF admin THEN adminRef(p.ret) ELSE clientRef(p.ret)
      pr == checkPriority(priority)
  IN  IF m.err # "none" THEN Rejected(m, <<>>)
      ELSE IF p.err # "none" THEN Rejected(p, <<>>)
      ELSE IF methodParsed = "update"
        THEN IF Truthy(value) /\ typeof(value) = "object"
             THEN dispatch(admin, p.ret, r, Call("update", <<value>>), fails)
             ELSE Rejected(Throw("TypeError", "The value to write must be an object"), <<>>)
      ELSE IF methodParsed = "remove"
        THEN dispatch(admin, p.ret, r, Call("remove", <<>>), fails)
      ELSE IF methodParsed \in {"setPriority", "setWithPriority"}
        THEN IF admin /\ p.ret = undefined
               THEN dispatch(admin, p.ret, r, Call(methodParsed, <<>>), fails)
             ELSE IF pr.err # "none" THEN Rejected(pr, r)
             ELSE IF methodParsed = "setPriority"
               THEN dispatch(admin, p.ret, r, Call("setPriority", <<pr.ret>>), fails)
             ELSE dispatch(admin, p.ret, r, Call("setWithPriority", <<value, pr.ret>>), fails)
      ELSE IF methodParsed \in {"set", "push"}
        THEN dispatch(admin, p.ret, r, Call(methodParsed, <<value>>), fails)
      ELSE IF admin /\ p.ret = undefined
        THEN dispatch(admin, p.ret, r, Call(methodParsed, <<>>), fails)
      ELSE IF methodParsed \in InheritedCallable /\ (admin \/ interop)
        THEN Result("ok", "", FALSE, r)
      ELSE Result("RuntimeTypeError", "is not a function", FALSE, r)

\* setOnDisconnectQuery(method, path, ...args): async as well; its switch has
\* no default branch
setOnDisconnectQuery(admin, method, path, value, priority, fails) ==
  LET m == checkOnDisconnectQueryMethod(method)
      p == checkPath(path, FALSE)
      methodParsed == m.ret.s[1]
      r == (IF admin THEN adminRef(p.ret) ELSE clientRef(p.ret))
           \o <<Call("onDisconnect", <<>>)>>
      pr == checkPriority(priority)
  IN  IF m.err # "none" THEN Rejected(m, <<>>)
      ELSE IF p.err # "none" THEN Rejected(p, <<>>)
      ELSE IF admin /\ p.ret = undefined
        THEN dispatch(admin, p.ret, r, Call(methodParsed, <<>>), fails)
      ELSE IF methodParsed \in {"cancel", "remove"}
        THEN Settled(fails, r \o <<Call(methodParsed, <<>>)>>)
      ELSE IF methodParsed = "set"
        THEN Settled(fails, r \o <<Call("set", <<value>>)>>)
      ELSE IF methodParsed = "update"
        THEN IF Truthy(value) /\ typeof(value) = "object"
             THEN Settled(fails, r \o <<Call("update", <<value>>)>>)
             ELSE Rejected(Throw("TypeError", "The value must be an object with update query"), r)
      ELSE IF methodParsed = "setWithPriority"
        THEN IF pr.err # "none" THEN Rejected(pr, r)
             ELSE Settled(fails, r \o <<Call("setWithPriority", <<value, pr.ret>>)>>)
      ELSE Result("ok", "", FALSE, r)

\* the record of a call: the operation and its arguments, whether the backend
\* fails the operation it is asked for, and nth: the call is the nth one made
NoCall ==
  [op |-> "none", admin |-> FALSE, method |-> undefined, path |-> undefined,
   constraints |-> NotConstraints("undefined"), callback |-> undefined,
   value |-> undefined, priority |-> undefined, fails |-> FALSE, nth |-> 0]


\* ------------------------------------------------------------ Connection
Init ==
  /\ revision \in Revisions
  /\ _state = "DISCONNECTED"
  /\ firstConnectionEtablished = FALSE
  /\ subscriptionCallback = Undefined
  /\ timeoutID = Undefined
  /\ listeners = {}
  /\ subscribed = 0
  /\ timers = <<>>
  /\ armed = 0
  /\ tickPending = TRUE
  /\ signState \in {"NOT_YET", "SIGNED_IN"}   \* the client may have signed in before new RTDB(client)
  /\ appDeleted = FALSE
  /\ pendingSignIns = 0
  /\ emitted = <<>>
  /\ last = [op |-> "constructor", arg |-> "none"]
  /\ tornDown = FALSE
  /\ trace = <<>>
  /\ wrapped = FALSE
  /\ clientClass = "BaseClient"
  /\ app = "App"
  /\ appInitialised = TRUE
  /\ initPending = FALSE
  /\ database = TRUE
  /\ signOutPending = 0
  /\ orphaned = [wrapSignIn |-> 0, initClient |-> 0]
  /\ call = NoCall
  /\ result = NoResult
  /\ attached = {}
  /\ online = TRUE

\* a subscription that announces CONNECTING as soon as it is made
subscribeConnectionState_Eager ==
  /\ tornDown' = FALSE
  /\ subscribed' = subscribed + 1
  /\ listeners' = listeners \cup {subscribed + 1}
  /\ subscriptionCallback' = subscribed + 1
  /\ _state' = "CONNECTING"
  /\ UNCHANGED <<firstConnectionEtablished, timeoutID, timers, armed>>

\* subscribeConnectionState(): onValue(ref(".info/connected"), cb, err) attaches a
\* new listener and its unsubscribe handle overwrites subscriptionCallback
subscribeConnectionState ==
  /\ tornDown' = FALSE
  /\ subscribed' = subscribed + 1
  /\ listeners' = listeners \cup {subscribed + 1}
  /\ subscriptionCallback' = subscribed + 1
  /\ UNCHANGED <<_state, firstConnectionEtablished, timeoutID, timers, armed>>

\* calling the stored handle detaches its listener (calling it again is a no-op);
\* without a handle nothing is called
unsubscribe(handle) == IF handle # Undefined THEN listeners \ {handle} ELSE listeners

\* removeConnectionState() of revision A: calls the handle, then forgets it
removeConnectionStateA ==
  /\ listeners' = unsubscribe(subscriptionCallback)
  /\ subscriptionCallback' = Undefined

\* removeConnectionState() of revision B: calls the handle and keeps it
removeConnectionStateB ==
  /\ listeners' = unsubscribe(subscriptionCallback)
  /\ subscriptionCallback' = subscriptionCallback

\* neither revision touches the timer, the state or the flag
removeConnectionState ==
  /\ tornDown' = TRUE
  /\ IF revision = "A" THEN removeConnectionStateA ELSE removeConnectionStateB
  /\ UNCHANGED <<_state, firstConnectionEtablished, timeoutID, timers, armed, subscribed>>

\* a listener that emits "connected" only on a change of state
onConnected_Dedup ==
  /\ timers' = IF timeoutID # Undefined THEN clearTimeout(timers, timeoutID) ELSE timers
  /\ timeoutID' = Undefined
  /\ _state' = "CONNECTED"
  /\ firstConnectionEtablished' = TRUE
  /\ emitted' = IF _state = "CONNECTED" THEN <<>> ELSE <<"connected">> \o Log
  /\ UNCHANGED armed

\* the listener's branch for snapshot.val() === true
onConnected ==
  /\ timers' = IF timeoutID # Undefined THEN clearTimeout(timers, timeoutID) ELSE timers
  /\ timeoutID' = Undefined
  /\ _state' = "CONNECTED"
  /\ firstConnectionEtablished' = TRUE
  /\ emitted' = <<"connected">> \o Log
  /\ UNCHANGED armed

\* a listener that never emits "disconnect"
onNotConnected_NoDisconnect ==
  /\ armed' = armed + 1
  /\ timeoutID' = armed + 1
  /\ timers' = setTimeout(timers, armed + 1, DisconnectTimeout)
  /\ _state' = IF firstConnectionEtablished THEN "RE_CONNECTING" ELSE "CONNECTING"
  /\ emitted' = (IF firstConnectionEtablished THEN <<"re-connecting">> ELSE <<"connecting">>)
                \o Log
  /\ UNCHANGED firstConnectionEtablished

\* a listener that starts over with CONNECTING once a timeout went to DISCONNECTED
onNotConnected_AfterDisconnected ==
  /\ armed' = armed + 1
  /\ timeoutID' = armed + 1
  /\ timers' = setTimeout(timers, armed + 1, DisconnectTimeout)
  /\ LET again == firstConnectionEtablished /\ _state # "DISCONNECTED" IN
       /\ _state' = IF again THEN "RE_CONNECTING" ELSE "CONNECTING"
       /\ emitted' = (IF again THEN <<"disconnect">> ELSE <<>>)
                     \o (IF again THEN <<"re-connecting">> ELSE <<"connecting">>)
                     \o Log
  /\ UNCHANGED firstConnectionEtablished

\* a listener that stays silent when the state is already the one it would set
onNotConnected_Dedup ==
  /\ armed' = armed + 1
  /\ timeoutID' = armed + 1
  /\ timers' = setTimeout(timers, armed + 1, DisconnectTimeout)
  /\ _state' = IF firstConnectionEtablished THEN "RE_CONNECTING" ELSE "CONNECTING"
  /\ emitted' = IF _state \in {"CONNECTING", "RE_CONNECTING"}
                THEN <<>>
                ELSE (IF firstConnectionEtablished = TRUE THEN <<"disconnect">> ELSE <<>>)
                     \o (IF firstConnectionEtablished THEN <<"re-connecting">> ELSE <<"connecting">>)
                     \o Log
  /\ UNCHANGED firstConnectionEtablished

\* the listener's else branch: every value other than true. The new timer's id
\* overwrites timeoutID; a timer armed earlier is not cleared
onNotConnected ==
  /\ armed' = armed + 1
  /\ timeoutID' = armed + 1
  /\ timers' = setTimeout(timers, armed + 1, DisconnectTimeout)
  /\ _state' = IF firstConnectionEtablished THEN "RE_CONNECTING" ELSE "CONNECTING"
  /\ emitted' = (IF firstConnectionEtablished = TRUE THEN <<"disconnect">> ELSE <<>>)
                \o (IF firstConnectionEtablished THEN <<"re-connecting">> ELSE <<"connecting">>)
                \o Log
  /\ UNCHANGED firstConnectionEtablished

\* a timer callback that emits without assigning _state
timeoutCallback_EmitOnly ==
  /\ _state' = _state
  /\ emitted' = <<"disconnected">>
  /\ trace' = trace \o Emits(<<"disconnected">>)

\* the setTimeout callback of revision A: assigns _state, then emits
timeoutCallbackA ==
  /\ _state' = "DISCONNECTED"
  /\ emitted' = <<"disconnected">>
  /\ trace' = trace \o <<<<"state", "DISCONNECTED">>>> \o Emits(<<"disconnected">>)

\* the setTimeout callback of revision B: only emits
timeoutCallbackB ==
  /\ _state' = _state
  /\ emitted' = <<"disconnected">>
  /\ trace' = trace \o Emits(<<"disconnected">>)

\* an error callback that subscribes again after the failure
errorCallback_Retry ==
  /\ subscribed' = subscribed + 1
  /\ subscriptionCallback' = subscribed + 1
  /\ emitted' = <<>>
  /\ UNCHANGED <<_state, firstConnectionEtablished, timeoutID, timers, armed>>

\* the error callback given to onValue: `throw error`, nothing else
errorCallback ==
  /\ emitted' = <<>>
  /\ UNCHANGED <<_state, firstConnectionEtablished, subscriptionCallback, timeoutID,
                 subscribed, timers, armed>>

\* ---------------------------------------------------------------- actions
\* the constructor's nextTick callback
NextTick ==
  /\ tickPending
  /\ subscribed < MaxSubscriptions
  /\ tickPending' = FALSE
  /\ subscribeConnectionState
  /\ emitted' = <<>>
  /\ last' = [op |-> "nextTick", arg |-> "none"]
  /\ UNCHANGED <<qVars, lifeVars, revision, clientVars, trace>>

\* the backend delivers a ".info/connected" snapshot to one attached listener
OnValue(l, val) ==
  /\ l \in listeners
  /\ Len(SelectSeq(trace, LAMBDA e: e[1] = "signal")) < MaxSignals
  /\ IF val = "true" THEN onConnected ELSE onNotConnected
  /\ last' = [op |-> "onValue", arg |-> val]
  /\ trace' = trace \o <<<<"signal", val>>, <<"state", _state'>>>> \o Emits(emitted')
  /\ UNCHANGED <<qVars, lifeVars, revision, subscriptionCallback, listeners, subscribed, tickPending,
                 clientVars, tornDown>>

\* the backend cancels one attached listener with an error: the listener is gone
\* and the error callback runs, which throws the error to the backend's caller
OnError(l) ==
  /\ l \in listeners
  /\ listeners' = listeners \ {l}
  /\ errorCallback
  /\ last' = [op |-> "onError", arg |-> "throw"]
  /\ UNCHANGED <<qVars, lifeVars, revision, tickPending, clientVars, tornDown, trace>>

\* the oldest pending timer expires and its callback runs
TimerExpire ==
  /\ timers # <<>>
  /\ timers' = Tail(timers)
  /\ IF revision = "A" THEN timeoutCallbackA ELSE timeoutCallbackB
  /\ last' = [op |-> "timeout", arg |-> "none"]
  /\ UNCHANGED <<qVars, lifeVars, revision, firstConnectionEtablished, subscriptionCallback, timeoutID,
                 listeners, subscribed, armed, tickPending, clientVars, tornDown>>

\* a caller invokes the public removeConnectionState()
RemoveConnectionState ==
  /\ removeConnectionState
  /\ emitted' = <<>>
  /\ last' = [op |-> "removeConnectionState", arg |-> "call"]
  /\ UNCHANGED <<qVars, lifeVars, revision, tickPending, clientVars, trace>>

\* ------------------------------------------------------------- BaseClient
\* the "sign-in" handler the Connection registered (revision B only)
onSignIn ==
  IF revision = "B" THEN subscribeConnectionState ELSE UNCHANGED <<connVars, tornDown>>

\* the "sign-out" handler the Connection registered (revision B only)
onSignOut ==
  IF revision = "B" THEN removeConnectionState ELSE UNCHANGED <<connVars, tornDown>>

\* BaseClient.wrapSignIn up to its await: the guards, then emit("sign-in")
WrapSignIn ==
  /\ signState # "SIGNED_IN"
  /\ appDeleted = FALSE
  /\ pendingSignIns < MaxPendingSignIns
  /\ revision = "B" => subscribed < MaxSubscriptions
  /\ pendingSignIns' = pendingSignIns + 1
  /\ onSignIn
  /\ emitted' = <<>>
  /\ last' = [op |-> "wrapSignIn", arg |-> "sign-in"]
  /\ UNCHANGED <<qVars, lifeVars, revision, tickPending, signState, appDeleted, trace>>

\* BaseClient.wrapSignIn after the await: signInFn() resolved or rejected
SignInSettled(success) ==
  /\ pendingSignIns > 0
  /\ pendingSignIns' = pendingSignIns - 1
  /\ signState' = IF success THEN "SIGNED_IN" ELSE "ERROR"
  /\ emitted' = <<>>
  /\ last' = [op |-> "wrapSignIn", arg |-> IF success THEN "signed-in" ELSE "sign-in-error"]
  /\ UNCHANGED <<qVars, lifeVars, revision, connVars, tickPending, appDeleted, tornDown, trace>>

\* BaseClient.signOut: the guards, then emit("sign-out")
SignOut ==
  /\ signState # "NOT_YET"
  /\ signState # "SIGN_OUT"
  /\ appDeleted = FALSE
  /\ signState' = "SIGN_OUT"
  /\ onSignOut
  /\ emitted' = <<>>
  /\ last' = [op |-> "signOut", arg |-> "sign-out"]
  /\ UNCHANGED <<qVars, lifeVars, revision, tickPending, appDeleted, pendingSignIns, trace>>

\* BaseClient.deleteClient: emit("deleting-client"), which no Connection handles
DeleteClient ==
  /\ appDeleted = FALSE
  /\ appDeleted' = TRUE
  /\ emitted' = <<>>
  /\ last' = [op |-> "deleteClient", arg |-> "deleting-client"]
  /\ UNCHANGED <<qVars, lifeVars, revision, connVars, tickPending, signState, pendingSignIns, tornDown, trace>>

\* ----------------------------------------------------- Query Engine steps
\* what every Query Engine step does besides its own effect
Called(c, res) ==
  /\ call' = [c EXCEPT !.nth = call.nth + 1]
  /\ result' = res
  /\ emitted' = <<>>
  /\ last' = [op |-> c.op, arg |-> res.outcome]
  /\ UNCHANGED <<lifeVars, revision, tickPending, clientVars, tornDown, trace>>

DoGetQuery(admin, path, constraints, fails) ==
  /\ Called([NoCall EXCEPT !.op = "doGetQuery", !.admin = admin, !.path = path,
                           !.constraints = constraints, !.fails = fails],
            doGetQuery(admin, path, constraints, fails))
  /\ UNCHANGED <<connVars, attached, online>>

DoSubscriptionQuery(admin, listener, callback, path, constraints) ==
  LET res == doSubscriptionQuery(admin, listener, callback, path, constraints) IN
  /\ Called([NoCall EXCEPT !.op = "doSubscriptionQuery", !.admin = admin,
                           !.method = listener, !.callback = callback, !.path = path,
                           !.constraints = constraints], res)
  /\ attached' = IF res.outcome = "ok"
                 THEN attached \cup {Registration(listener, checkPath(path, TRUE).ret, callback,
                                                   applyQueryConstraints(constraints).calls)}
                 ELSE attached
  /\ UNCHANGED <<connVars, online>>

DoUnSubscriptionQuery(admin, listener, unsubscriptionCallback, path) ==
  LET res == doUnSubscriptionQuery(admin, listener, unsubscriptionCallback, path) IN
  /\ Called([NoCall EXCEPT !.op = "doUnSubscriptionQuery", !.admin = admin,
                           !.method = listener, !.callback = unsubscriptionCallback,
                           !.path = path], res)
  /\ attached' = IF res.outcome = "ok"
                 THEN attached \ detachedBy(admin, listener, unsubscriptionCallback,
                                            checkPath(path, TRUE).ret, attached)
                 ELSE attached
  /\ UNCHANGED <<connVars, online>>

DoWriteQuery(admin, method, path, value, priority, fails) ==
  /\ \E interop \in BOOLEAN :
       Called([NoCall EXCEPT !.op = "doWriteQuery", !.admin = admin, !.method = method,
                             !.path = path, !.value = value, !.priority = priority,
                             !.fails = fails],
              doWriteQuery(admin, method, path, value, priority, fails, interop))
  /\ UNCHANGED <<connVars, attached, online>>

SetOnDisconnectQuery(admin, method, path, value, priority, fails) ==
  /\ Called([NoCall EXCEPT !.op = "setOnDisconnectQuery", !.admin = admin,
                           !.method = method, !.path = path, !.value = value,
                           !.priority = priority, !.fails = fails],
            setOnDisconnectQuery(admin, method, path, value, priority, fails))
  /\ UNCHANGED <<connVars, attached, online>>

\* a goOffline that also marks the Connection as disconnected
goOffline_Disconnects ==
  /\ online' = FALSE
  /\ _state' = "DISCONNECTED"
  /\ timers' = <<>>
  /\ UNCHANGED <<firstConnectionEtablished, subscriptionCallback, timeoutID, listeners,
                 subscribed, armed>>

\* a goOffline that switches the transport over at every call
goOffline_Toggle ==
  /\ online' = ~online
  /\ UNCHANGED connVars

\* goOffline(): the backend's goOffline, nothing of the Connection is touched
goOffline ==
  /\ online' = FALSE
  /\ UNCHANGED connVars

\* goOnline(): the backend's goOnline
goOnline ==
  /\ online' = TRUE
  /\ UNCHANGED connVars

GoOffline(admin) ==
  /\ goOffline
  /\ Called([NoCall EXCEPT !.op = "goOffline", !.admin = admin],
            Result("ok", "", TRUE, <<Call("goOffline", <<>>)>>))
  /\ UNCHANGED attached

GoOnline(admin) ==
  /\ goOnline
  /\ Called([NoCall EXCEPT !.op = "goOnline", !.admin = admin],
            Result("ok", "", TRUE, <<Call("goOnline", <<>>)>>))
  /\ UNCHANGED attached

Next ==
  \/ NextTick
  \/ \E l \in 1..MaxSubscriptions, val \in SnapshotVal : OnValue(l, val)
  \/ \E l \in 1..MaxSubscriptions : OnError(l)
  \/ TimerExpire
  \/ RemoveConnectionState
  \/ WrapSignIn
  \/ \E success \in BOOLEAN : SignInSettled(success)
  \/ SignOut
  \/ DeleteClient

Spec == Init /\ [][Next]_vars

\* the Connection of connection.ts 23-80 / app.ts 64-121 alone
InitA == Init /\ revision = "A"
SpecA == InitA /\ [][Next]_vars

\* ----------------------------------------- the Query Engine on its own
\* bounds of the argument sets
MaxPathLen == 2          \* characters in a path string
MaxConstraints == 2      \* entries in a query constraint set

PathChars == {"a", " ", ".", "#", "$", "[", "]"}
PathStrings == UNION {[1..n -> PathChars] : n \in 0..MaxPathLen}
PathArgs == {undefined, null, Num(0), Num(5)} \cup {Str(s) : s \in PathStrings}
FewPaths == {undefined, Str(<<"a">>), Str(<<" ">>), Str(<<"a", "$">>)}
GoodPaths == {undefined, Str(<<"a">>)}

Listeners ==
  {Str(<<k>>) : k \in EventTypes \cup {"constructor", "toString", "onValue", "foo"}}
  \cup {undefined, Num(0)}
FewListeners == {Str(<<"value">>), Str(<<"constructor">>)}
Callbacks == {Fn("callback"), undefined, null, Str(<<"callback">>), Obj("{}")}
FewCallbacks == {Fn("callback")}
\* handles given to doUnSubscriptionQuery: no function, a foreign function, the
\* callback of an attached listener, the client SDK's unsubscribe of one
Handles(regs) ==
  {undefined, Str(<<"callback">>), Fn("other")}
  \cup {g.cb : g \in regs} \cup {Unsubscribe(g) : g \in regs}

WriteMethods ==
  {Str(<<QueryMethodMap[i]>>) : i \in 1..Len(QueryMethodMap)}
  \cup {Str(<<k>>) : k \in {"0", "5", "6", "toString", "constructor", "get", "cancel"}}
  \cup {undefined, null, Num(0)}
OnDisconnectMethods ==
  {Str(<<OnDisconnectMethodMap[i]>>) : i \in 1..Len(OnDisconnectMethodMap)}
  \cup {Str(<<k>>) : k \in {"0", "4", "5", "toString", "constructor", "push", "setPriority"}}
  \cup {undefined, null, Num(0)}
WriteValues ==
  {undefined, null, Bool(TRUE), Bool(FALSE), Num(1), Num(0), Str(<<"v">>), Str(<<>>),
   Obj("{}"), Obj("[]")}
FewWriteValues == {Num(1), Obj("{}")}
Priorities ==
  {undefined, null, Num(1), Num(0), Num(0 - 1), Half(1), Bool(TRUE), Obj("{}"),
   Str(<<"2">>), Str(<<"0">>), Str(<<"a">>), Str(<<>>)}
FewPriorities == {undefined, Num(1)}

\* the values tried for a range constraint: [value, value.value, value.key]
RangeValues ==
  {<<Obj("{}"), Str(<<"a">>), undefined>>, <<Obj("{}"), Num(1), Str(<<"k">>)>>,
   <<Obj("{}"), Bool(TRUE), undefined>>, <<Obj("{}"), null, undefined>>,
   <<Obj("{}"), undefined, undefined>>, <<Obj("{}"), Obj("{}"), undefined>>,
   <<Str(<<"a">>), undefined, undefined>>,
   <<Obj("{}"), Num(1), null>>, <<Obj("{}"), Num(1), Num(0)>>, <<Obj("{}"), Num(1), Num(1)>>,
   <<Obj("{}"), Num(1), Bool(FALSE)>>, <<Obj("{}"), Num(1), Bool(TRUE)>>,
   <<Obj("{}"), Num(1), Obj("{}")>>}
FewRangeValues == {<<Obj("{}"), Num(1), Str(<<"k">>)>>, <<Obj("{}"), Num(1), null>>}
LimitValues == {Num(1), Num(0), Num(0 - 1), Half(1), Str(<<"1">>), null}
UnknownKeys == {"foo", "toString"}
ConstraintEntries ==
  {Entry("startAt", v[1], v[2], v[3]) : v \in RangeValues}
  \cup {Entry(m, v[1], v[2], v[3]) : m \in RangeMethods, v \in FewRangeValues}
  \cup {Entry(m, v, undefined, undefined) : m \in LimitMethods, v \in LimitValues}
  \cup {Entry("orderByChild", v, undefined, undefined) : v \in {Str(<<"name">>), Num(1)}}
  \cup {Entry(m, v, undefined, undefined) : m \in OrderMethods, v \in {null, Num(1)}}
  \cup {Entry(m, null, undefined, undefined) : m \in UnknownKeys}
\* an object has every key once
EntrySeqs ==
  {s \in UNION {[1..n -> ConstraintEntries] : n \in 0..MaxConstraints} :
     \A i, j \in 1..Len(s) : i # j => s[i].method # s[j].method}
ConstraintArgs ==
  {NotConstraints("undefined"), NotConstraints("null"), NotConstraints("string")}
  \cup {Constraints(s) : s \in EntrySeqs}
FewConstraints ==
  {NotConstraints("undefined"),
   Constraints(<<Entry("limitToFirst", Num(1), undefined, undefined)>>),
   Constraints(<<Entry("foo", null, undefined, undefined)>>)}

\* no Query Engine call was made yet
Idle == call = NoCall
\* the call just made was a subscription that attached a listener
Subscribed ==
  /\ call.op = "doSubscriptionQuery"
  /\ result.outcome = "ok"
  /\ call.constraints \in FewConstraints
  /\ call.path \in FewPaths

QNext ==
  \/ Idle /\ \E admin \in BOOLEAN, path \in PathArgs, c \in FewConstraints, fails \in BOOLEAN :
               DoGetQuery(admin, path, c, fails)
  \/ Idle /\ \E admin \in BOOLEAN, path \in GoodPaths, c \in ConstraintArgs, fails \in BOOLEAN :
               DoGetQuery(admin, path, c, fails)
  \/ Idle /\ \E admin \in BOOLEAN, l \in Listeners, cb \in Callbacks, path \in FewPaths,
                c \in FewConstraints : DoSubscriptionQuery(admin, l, cb, path, c)
  \/ Idle /\ \E admin \in BOOLEAN, l \in FewListeners, cb \in FewCallbacks, path \in PathArgs,
                c \in FewConstraints : DoSubscriptionQuery(admin, l, cb, path, c)
  \/ Idle /\ \E admin \in BOOLEAN, l \in FewListeners, cb \in FewCallbacks, path \in GoodPaths,
                c \in ConstraintArgs : DoSubscriptionQuery(admin, l, cb, path, c)
  \/ Idle /\ \E admin \in BOOLEAN, l \in Listeners, h \in Handles({}), path \in PathArgs :
               DoUnSubscriptionQuery(admin, l, h, path)
  \/ Subscribed /\ \E l \in Listeners, h \in Handles(attached), path \in FewPaths :
               DoUnSubscriptionQuery(call.admin, l, h, path)
  \/ Idle /\ \E admin \in BOOLEAN, m \in WriteMethods, path \in PathArgs, v \in FewWriteValues,
                pr \in FewPriorities, fails \in BOOLEAN : DoWriteQuery(admin, m, path, v, pr, fails)
  \/ Idle /\ \E admin \in BOOLEAN, m \in WriteMethods, path \in FewPaths, v \in WriteValues,
                pr \in Priorities, fails \in BOOLEAN : DoWriteQuery(admin, m, path, v, pr, fails)
  \/ Idle /\ \E admin \in BOOLEAN, m \in OnDisconnectMethods, path \in PathArgs, v \in FewWriteValues,
                pr \in FewPriorities, fails \in BOOLEAN :
               SetOnDisconnectQuery(admin, m, path, v, pr, fails)
  \/ Idle /\ \E admin \in BOOLEAN, m \in OnDisconnectMethods, path \in FewPaths, v \in WriteValues,
                pr \in Priorities, fails \in BOOLEAN :
               SetOnDisconnectQuery(admin, m, path, v, pr, fails)
  \/ Idle /\ \E admin \in BOOLEAN : GoOffline(admin)
  \/ Idle /\ \E admin \in BOOLEAN : GoOnline(admin)

\* the Query Engine called once (twice for subscribe, then unsubscribe) on a new RTDB
QSpec == InitA /\ [][QNext]_vars

\* ------------------------------- the Query Engine beside the Connection
\* one call of any operation (an unsubscription may follow a subscription, a
\* second goOffline the first),
\* accepted or refused, succeeding or failing in the backend, made at any
\* moment of the Connection's life
SamplePaths == {Str(<<"a">>), Str(<<"a", "$">>)}
SampleMethods == {Str(<<"set">>), Str(<<"get">>)}
NoConstraints == NotConstraints("undefined")

QueryCall ==
  \/ Idle /\ \E admin \in BOOLEAN, path \in SamplePaths, fails \in BOOLEAN :
               DoGetQuery(admin, path, NoConstraints, fails)
  \/ Idle /\ \E admin \in BOOLEAN, l \in FewListeners :
               DoSubscriptionQuery(admin, l, Fn("callback"), Str(<<"a">>), NoConstraints)
  \/ (Idle \/ Subscribed) /\ \E admin \in BOOLEAN, h \in Handles(attached) :
               DoUnSubscriptionQuery(admin, Str(<<"value">>), h, Str(<<"a">>))
  \/ Idle /\ \E admin \in BOOLEAN, m \in SampleMethods, path \in SamplePaths,
                fails \in BOOLEAN : DoWriteQuery(admin, m, path, Num(1), undefined, fails)
  \/ Idle /\ \E admin \in BOOLEAN, m \in SampleMethods, path \in SamplePaths,
                fails \in BOOLEAN : SetOnDisconnectQuery(admin, m, path, Num(1), undefined, fails)
  \/ Idle /\ \E admin \in BOOLEAN : GoOffline(admin)
  \/ call.op = "goOffline" /\ call.nth = 1 /\ GoOffline(call.admin)
  \/ Idle /\ \E admin \in BOOLEAN : GoOnline(admin)

RNext ==
  \/ NextTick
  \/ \E l \in 1..MaxSubscriptions, val \in SnapshotVal : OnValue(l, val)
  \/ \E l \in 1..MaxSubscriptions : OnError(l)
  \/ TimerExpire
  \/ RemoveConnectionState
  \/ QueryCall

RInit == InitA /\ signState = "SIGNED_IN"
RSpec == RInit /\ [][RNext]_vars

\* ------------------------------------------------- checkPriority alone
\* checkPriority applied once to one input
MaxPriorityLen == 3      \* characters in a priority string
MaxPriority == 12        \* the largest integer tried as a priority

PriorityChars == {"0", "1", "2", "-", "+", ".", " ", "a"}
PriorityStrings == UNION {[1..n -> PriorityChars] : n \in 0..MaxPriorityLen}
PriorityInputs ==
  {undefined, null, Bool(TRUE), Bool(FALSE), NaN, Obj("{}"), Obj("[]"), Fn("callback")}
  \cup {Num(n) : n \in (0 - 2)..MaxPriority}
  \cup {Half(n) : n \in (0 - 2)..1}
  \cup {Str(String(n)) : n \in (0 - 2)..MaxPriority}
  \cup {Str(s) : s \in PriorityStrings}

CheckPriority(priority) ==
  LET c == checkPriority(priority) IN
  /\ Called([NoCall EXCEPT !.op = "checkPriority", !.priority = priority],
            Returning(Result(IF c.err = "none" THEN "ok" ELSE c.err, c.msg, TRUE, <<>>), c.ret))
  /\ UNCHANGED <<connVars, attached, online>>

PNext == Idle /\ \E priority \in PriorityInputs : CheckPriority(priority)

PSpec == InitA /\ [][PNext]_vars

TypeOK ==
  /\ revision \in Revisions
  /\ _state \in ConnectionState
  /\ firstConnectionEtablished \in BOOLEAN
  /\ subscriptionCallback \in 0..MaxSubscriptions
  /\ timeoutID \in 0..MaxSignals
  /\ listeners \subseteq 1..subscribed
  /\ subscribed \in 0..MaxSubscriptions
  /\ \A i \in 1..Len(timers) : timers[i].id \in 1..armed /\ timers[i].ms = DisconnectTimeout
  /\ armed \in 0..MaxSignals
  /\ tickPending \in BOOLEAN
  /\ signState \in SignState
  /\ appDeleted \in BOOLEAN
  /\ pendingSignIns \in 0..MaxPendingSignIns
  /\ \A i \in 1..Len(emitted) :
       emitted[i] \in RTDBEvents \cup {"deleting-client", "sign-in", "sign-out",
                                        "signed-in", "sign-in-error"}
  /\ tornDown \in BOOLEAN
  /\ wrapped \in BOOLEAN
  /\ clientClass \in {"undefined", "BaseClient", "AdminClient", "Client"}
  /\ app \in {"undefined", "App", "AdminApp"}
  /\ appInitialised \in BOOLEAN
  /\ initPending \in BOOLEAN
  /\ database \in BOOLEAN
  /\ signOutPending \in Nat
  /\ orphaned.wrapSignIn \in 0..MaxPendingSignIns
  /\ orphaned.initClient \in Nat

\* ------------------------------------------------------- reading the trace
Range(s) == {s[i] : i \in 1..Len(s)}
Kind(k) == SelectSeq(trace, LAMBDA e: e[1] = k)
Values(s) == [i \in 1..Len(s) |-> s[i][2]]
Signals == Values(Kind("signal"))          \* the signals handled so far, in order
States == Values(Kind("state"))            \* the values assigned to _state, in order
Events == SelectSeq(Values(Kind("emit")), LAMBDA e: e # "log")
Count(e) == Len(SelectSeq(Events, LAMBDA x: x = e))
LastSignal == IF Signals = <<>> THEN "none" ELSE Signals[Len(Signals)]
EmittedNow == SelectSeq(emitted, LAMBDA e: e # "log")
HandledTrue == last.op = "onValue" /\ last.arg = "true"
HandledNotTrue == last.op = "onValue" /\ last.arg # "true"
Earlier == SubSeq(Signals, 1, Len(Signals) - 1)   \* the signals before the last one

\* ------------------------------------------------------------------ claims
\* C1: once a true liveness signal has been handled no disconnect timer is
\* pending, whatever signals came before it: until a later non-true signal is
\* handled no timer expires, the state stays CONNECTED and "disconnected" is
\* not emitted.
C1_NoTimerAfterTrue ==
  LastSignal = "true" =>
    /\ timers = <<>>
    /\ last.op # "timeout"
    /\ _state = "CONNECTED"
    /\ "disconnected" \notin Range(emitted)

\* C2: at most one disconnect timer is pending in every reachable state:
\* arming a timer replaces the timer an earlier non-true signal armed.
C2_AtMostOneTimer == Len(timers) <= 1

\* C3: after removeConnectionState, and until a new subscription is made, the
\* component is inert: no step changes _state and no step emits an RTDB event.
C3_InertAfterTeardown ==
  [][(tornDown /\ tornDown') => (_state' = _state /\ emitted' = <<>>)]_vars

\* C4: at most one ".info/connected" listener is attached at any time, and an
\* attached listener is the one the stored handle detaches.
C4_SingleSubscription ==
  /\ Cardinality(listeners) <= 1
  /\ listeners \subseteq {subscriptionCallback}

\* C5: from a fresh subscription, the signals true then false, the false held
\* past the timeout: "connected", "disconnect" and "disconnected" are each
\* emitted exactly once, "disconnect" with the false signal and "disconnected"
\* only after it; _state goes CONNECTED, RE_CONNECTING, DISCONNECTED.
C5_Scenario ==
  /\ Signals = <<"true">> =>
        /\ States = <<"CONNECTED">>
        /\ Events = <<"connected">>
        /\ _state = "CONNECTED"
  /\ (Signals = <<"true", "false">> /\ timers # <<>>) =>
        /\ States = <<"CONNECTED", "RE_CONNECTING">>
        /\ Events = <<"connected", "disconnect", "re-connecting">>
        /\ _state = "RE_CONNECTING"
  /\ (Signals = <<"true", "false">> /\ timers = <<>>) =>
        /\ States = <<"CONNECTED", "RE_CONNECTING", "DISCONNECTED">>
        /\ Events = <<"connected", "disconnect", "re-connecting", "disconnected">>
        /\ _state = "DISCONNECTED"

C5_ScenarioDone ==
  /\ Signals = <<"true", "false">>
  /\ timers = <<>>
  /\ Count("disconnected") = 1

\* C6: whenever "disconnected" is emitted, the state read at that moment
\* (every handler assigns _state before it emits) is DISCONNECTED.
C6_DisconnectedInStateDisconnected ==
  "disconnected" \in Range(emitted) => _state = "DISCONNECTED"

\* C7: handling a signal other than true arms a 30000 ms timer, sets _state to
\* CONNECTING if no true signal was ever handled and to RE_CONNECTING
\* otherwise, emits "connecting" resp. "re-connecting", and emits "disconnect"
\* exactly when a true signal had been handled before.
C7_NotTrueHandling ==
  HandledNotTrue =>
    /\ timers # <<>>
    /\ timers[Len(timers)] = [id |-> timeoutID, ms |-> 30000]
    /\ timeoutID = armed
    /\ \A i \in 1..(Len(timers) - 1) : timers[i].id # timeoutID
    /\ IF "true" \in Range(Earlier)
       THEN _state = "RE_CONNECTING" /\ EmittedNow = <<"disconnect", "re-connecting">>
       ELSE _state = "CONNECTING" /\ EmittedNow = <<"connecting">>

C7_DropHandled ==
  /\ HandledNotTrue
  /\ last.arg = "null"
  /\ "true" \in Range(Earlier)

\* C8: handling a true signal sets _state to CONNECTED, sets the
\* first-connection flag and emits "connected" exactly once, from any state.
C8_TrueHandling ==
  HandledTrue =>
    /\ _state = "CONNECTED"
    /\ firstConnectionEtablished = TRUE
    /\ EmittedNow = <<"connected">>
    /\ Count("connected") = Len(SelectSeq(Signals, LAMBDA v: v = "true"))

C8_TrueWhileConnected ==
  /\ HandledTrue
  /\ Len(States) >= 2
  /\ States[Len(States) - 1] = "CONNECTED"

\* C9: the first-connection flag is sticky: once a true signal was handled the
\* flag stays true, _state is never CONNECTING again and "connecting" is never
\* emitted again; every later non-true signal gives RE_CONNECTING with
\* "disconnect" and "re-connecting", also after a timeout went to DISCONNECTED.
C9_StickyFirstConnection ==
  /\ "true" \in Range(Signals) => firstConnectionEtablished = TRUE
  /\ \A i \in 1..Len(trace) :
        trace[i] = <<"signal", "true">> => \A j \in (i + 1)..Len(trace) :
          /\ trace[j] # <<"state", "CONNECTING">>
          /\ trace[j] # <<"emit", "connecting">>
          /\ (trace[j][1] = "signal" /\ trace[j][2] # "true") =>
                /\ j + 3 <= Len(trace)
                /\ trace[j + 1] = <<"state", "RE_CONNECTING">>
                /\ trace[j + 2] = <<"emit", "disconnect">>
                /\ trace[j + 3] = <<"emit", "re-connecting">>

C9_SecondDropAfterDisconnected ==
  \E i \in 1..(Len(States) - 1) :
    States[i] = "DISCONNECTED" /\ States[i + 1] = "RE_CONNECTING"

\* C10: after a signal other than true is handled and no true signal follows,
\* the disconnect is inferred once the timers have run: when no timer is
\* pending any more, _state is DISCONNECTED and "disconnected" was emitted.
C10_DisconnectInferred ==
  (LastSignal \notin {"none", "true"} /\ timers = <<>>) =>
    /\ _state = "DISCONNECTED"
    /\ Count("disconnected") >= 1

\* C11: every delivered signal is handled, in delivery order, none dropped and
\* none deduplicated: the i-th signal gives the i-th of the events "connected",
\* "connecting", "re-connecting", and it is "connected" exactly for true; so a
\* true while CONNECTED emits "connected" again and a non-true while CONNECTING
\* or RE_CONNECTING emits "connecting" resp. "re-connecting" again.
Handlings ==
  SelectSeq(Events, LAMBDA e: e \in {"connected", "connecting", "re-connecting"})

C11_EverySignalHandled ==
  LET sig == Signals
      han == Handlings
  IN /\ Len(han) = Len(sig)
     /\ \A i \in 1..Len(sig) :
           /\ (sig[i] = "true") <=> (han[i] = "connected")
           /\ (i > 1 /\ sig[i] # "true" /\ sig[i - 1] # "true") =>
                 han[i] = han[i - 1]

C11_RepeatedSignals ==
  /\ Signals = <<"false", "null", "true">>
  /\ Handlings = <<"connecting", "connecting", "connected">>

\* C13: an error reported by the liveness subscription is thrown again from the
\* error callback and is not retried: that step makes no new subscription, arms
\* and clears no timer, emits no event and leaves _state and the flag as they were.
C13_ErrorNotRetried ==
  [][(last'.op = "onError") =>
        /\ last'.arg = "throw"
        /\ subscribed' = subscribed
        /\ subscriptionCallback' = subscriptionCallback
        /\ listeners' \subseteq listeners
        /\ timers' = timers
        /\ armed' = armed
        /\ timeoutID' = timeoutID
        /\ emitted' = <<>>
        /\ _state' = _state
        /\ firstConnectionEtablished' = firstConnectionEtablished]_vars

C13_ErrorWhileConnecting ==
  /\ last.op = "onError"
  /\ _state = "CONNECTING"
  /\ timers # <<>>
  /\ listeners = {}

\* C14: the component is created DISCONNECTED with nothing subscribed, its
\* first subscription waits for the next tick, and until the first signal is
\* delivered _state stays DISCONNECTED, no event is emitted and no timer is armed.
C14_QuietUntilFirstSignal ==
  /\ last.op = "constructor" => (tickPending /\ subscribed = 0 /\ listeners = {})
  /\ (tickPending /\ revision = "A") => subscribed = 0
  /\ Signals = <<>> =>
        /\ _state = "DISCONNECTED"
        /\ firstConnectionEtablished = FALSE
        /\ trace = <<>>
        /\ emitted = <<>>
        /\ armed = 0

C14_SubscribedNoSignalYet ==
  /\ last.op = "nextTick"
  /\ listeners # {}
  /\ Signals = <<>>

\* C12: no Query Engine operation, accepted or refused, succeeding or failing
\* in the backend, changes the Connection in the step it executes: _state, the
\* first-connection flag, the pending timers and the subscription stay as they were.
QueryOps ==
  {"doGetQuery", "doSubscriptionQuery", "doUnSubscriptionQuery", "doWriteQuery",
   "setOnDisconnectQuery", "goOnline", "goOffline"}

C12_QueryLeavesConnection ==
  [][(last'.op \in QueryOps) =>
        /\ _state' = _state
        /\ firstConnectionEtablished' = firstConnectionEtablished
        /\ timers' = timers
        /\ timeoutID' = timeoutID
        /\ armed' = armed
        /\ subscriptionCallback' = subscriptionCallback
        /\ listeners' = listeners]_vars

C12_RefusedWhileTimerPending ==
  /\ last.op = "doWriteQuery"
  /\ result.outcome = "Error"
  /\ _state = "RE_CONNECTING"
  /\ timers # <<>>

\* ------------------------------------------- reading the Query Engine call
Fs == {result.backend[i].f : i \in 1..Len(result.backend)}    \* the backend functions called
Refused == result.outcome \notin {"none", "ok"}
ValidationError == result.outcome \in {"TypeError", "Error"}  \* thrown by the class itself
Fetches == {"get"}
Registers == {"on"} \cup {ListenerMap[k] : k \in DOMAIN ListenerMap}
Detaches == {"off", "unsubscribe"}
Mutations == {"set", "push", "update", "remove", "setPriority", "setWithPriority", "cancel"}
KnownConstraints == RangeMethods \cup LimitMethods \cup {"orderByChild"} \cup OrderMethods
HasUnknownKey ==
  /\ call.constraints.t = "object"
  /\ \E i \in 1..Len(call.constraints.entries) :
        call.constraints.entries[i].method \notin KnownConstraints
HasForbiddenChar ==
  /\ call.path.t = "string"
  /\ \E i \in 1..Len(call.path.s) : call.path.s[i] \in {".", "#", "$", "[", "]"}
PathOps ==
  {"doGetQuery", "doSubscriptionQuery", "doUnSubscriptionQuery", "doWriteQuery",
   "setOnDisconnectQuery"}
PathFormatError == result.outcome = "Error" /\ result.msg = "PATH must not contain"

\* C15: a constraint set with a key outside the eleven known ones makes
\* doGetQuery and doSubscriptionQuery throw, on both backends and wherever the
\* key stands in the set, before the fetch is issued or a listener registered.
C15_UnknownConstraintRejected ==
  (call.op \in {"doGetQuery", "doSubscriptionQuery"} /\ HasUnknownKey) =>
    /\ Refused
    /\ result.sync
    /\ Fs \cap (Fetches \cup Registers) = {}
    /\ attached = {}

C15_UnknownKeyLast ==
  /\ call.op = "doSubscriptionQuery"
  /\ call.admin
  /\ Len(call.constraints.entries) = MaxConstraints
  /\ call.constraints.entries[1].method = "orderByKey"
  /\ call.constraints.entries[MaxConstraints].method = "foo"
  /\ result.outcome = "Error"
  /\ "orderByKey" \in Fs

\* C16 as stated: a path with one of . # $ [ ] makes each of the five entry
\* points reject with the path-format error, whatever the other arguments are,
\* and without a backend call.
C16_PathFormatAlways ==
  (call.op \in PathOps /\ HasForbiddenChar) =>
    /\ PathFormatError
    /\ result.backend = <<>>

\* C16 amended: with such a path each of the five entry points rejects without
\* a backend call; the error is the path-format error, except that doWriteQuery
\* and setOnDisconnectQuery check the method first and reject with the method
\* error when the method is not accepted.
MethodRefused ==
  \/ call.op = "doWriteQuery" /\ checkQueryMethod(call.method).err # "none"
  \/ call.op = "setOnDisconnectQuery" /\ checkOnDisconnectQueryMethod(call.method).err # "none"

C16_PathFormatAfterMethod ==
  (call.op \in PathOps /\ HasForbiddenChar) =>
    /\ Refused
    /\ result.backend = <<>>
    /\ IF MethodRefused
       THEN ValidationError /\ result.msg \in {"Query Method do not exist!",
                 "Query Method must be a string!", "Query Method must be one of",
                 "On Disconnect Query Method do not exist!",
                 "On Disconnect Query Method must be a string!",
                 "On Disconnect Query Method must be one of"}
       ELSE PathFormatError

C16_WritePathRefused ==
  /\ call.op = "setOnDisconnectQuery"
  /\ call.method = Str(<<"remove">>)
  /\ call.path = Str(<<"a", "]">>)
  /\ PathFormatError
  /\ ~result.sync

\* C17: doWriteQuery and setOnDisconnectQuery, given a method they accept,
\* reject a path that is absent, empty or blank with a path validation error
\* and dispatch no backend mutation; the three operations that permit the root
\* accept the empty path.
Blank(path) == path = undefined \/ (path.t = "string" /\ trim(path.s) = <<>>)

WriteNames == {"set", "push", "update", "remove", "setPriority", "setWithPriority"}
OnDisconnectNames == {"cancel", "set", "update", "remove", "setWithPriority"}
ListedMethod ==
  \/ call.op = "doWriteQuery" /\ call.method \in {Str(<<k>>) : k \in WriteNames}
  \/ call.op = "setOnDisconnectQuery" /\ call.method \in {Str(<<k>>) : k \in OnDisconnectNames}
PathErrors ==
  {"The PATH do not exist!", "PATH must be non-empty string!", "PATH must be a string!",
   "PATH must not contain"}

C17_BlankPathRejected ==
  /\ (ListedMethod /\ Blank(call.path)) =>
        /\ ValidationError
        /\ result.msg \in PathErrors
        /\ Fs \cap Mutations = {}
  /\ (call.op \in {"doGetQuery", "doSubscriptionQuery", "doUnSubscriptionQuery"}
        /\ call.path = Str(<<>>)) =>
        result.msg \notin PathErrors

\* C18: a limitToFirst or limitToLast value that is no positive integer (zero,
\* negative, fractional, no number) is refused by the validation, and the
\* constraint is not applied to a backend reference or query.
BadLimit(e) ==
  /\ e.method \in LimitMethods
  /\ ~(e.value.t = "number" /\ e.value.s = <<>> /\ e.value.n > 0)

C18_LimitPositiveInteger ==
  (call.op \in {"doGetQuery", "doSubscriptionQuery"} /\ call.constraints.t = "object") =>
    \A i \in 1..Len(call.constraints.entries) :
      BadLimit(call.constraints.entries[i]) =>
        /\ Refused
        /\ \A j \in 1..Len(result.backend) :
              result.backend[j] # Call(call.constraints.entries[i].method,
                                       <<call.constraints.entries[i].value>>)

\* C19: doWriteQuery accepts exactly set, push, update, remove, setPriority and
\* setWithPriority, setOnDisconnectQuery exactly cancel, set, update, remove and
\* setWithPriority; every other method value is rejected and no backend
\* mutation is dispatched.
C19_ExactMethods ==
  (call.op \in {"doWriteQuery", "setOnDisconnectQuery"} /\ ~ListedMethod) =>
    (Refused /\ Fs \cap Mutations = {})

\* C20: the subscription operations accept exactly the listener kinds value,
\* child_added, child_changed, child_moved and child_removed; with any other
\* listener the call is rejected and no listener is registered or detached;
\* doSubscriptionQuery rejects a callback that is no function.
ListenerNames == {"value", "child_added", "child_changed", "child_moved", "child_removed"}

C20_ExactListeners ==
  [][(last'.op \in {"doSubscriptionQuery", "doUnSubscriptionQuery"}) =>
        /\ (call'.method \notin {Str(<<k>>) : k \in ListenerNames}) =>
              /\ result'.outcome # "ok"
              /\ attached' = attached
        /\ (last'.op = "doSubscriptionQuery" /\ call'.callback.t # "function") =>
              /\ result'.outcome \in {"TypeError", "Error"}
              /\ attached' = attached]_vars

\* the path argument is one the operations that permit the root accept
RootPathOk == call.path = undefined \/ (call.path.t = "string" /\ ~HasForbiddenChar)
ListedListener == call.method \in {Str(<<k>>) : k \in ListenerNames}

\* C21: doUnSubscriptionQuery called with an absent (undefined) handle, a
\* listed listener kind and an acceptable path is a no-op on both backends: it
\* returns normally, raises no error and performs no backend detach.
C21_AbsentHandleNoOp ==
  (call.op = "doUnSubscriptionQuery" /\ call.callback = undefined
     /\ ListedListener /\ RootPathOk) =>
    /\ result.outcome = "ok"
    /\ result.sync
    /\ Fs \cap Detaches = {}

\* C22: a validation failure (malformed path, unknown method, wrong value shape,
\* invalid priority, unknown constraint, bad callback) is thrown by the call
\* itself, in the caller's turn, for every entry point including doWriteQuery
\* and setOnDisconnectQuery; it is never delivered later as a rejected promise.
C22_ValidationSynchronous ==
  (call.op \in PathOps /\ ValidationError) => result.sync

\* the path argument is one doWriteQuery and setOnDisconnectQuery should accept
PathAccepted == call.path.t = "string" /\ ~HasForbiddenChar /\ ~Blank(call.path)
NonObject(v) == v.t \in {"undefined", "null", "boolean", "number", "string"}
UpdateErrors ==
  {"The value to write must be an object", "The value must be an object with update query"}

\* C23: doWriteQuery("update", path, value) and setOnDisconnectQuery("update",
\* path, value) reject for every value that is no object (undefined, null, a
\* boolean, a number, a string) on both backends and dispatch no backend
\* update; with an acceptable path the rejection is the TypeError of the value.
C23_UpdateNeedsObject ==
  (call.op \in {"doWriteQuery", "setOnDisconnectQuery"} /\ call.method = Str(<<"update">>)
     /\ NonObject(call.value)) =>
    /\ Refused
    /\ "update" \notin Fs
    /\ PathAccepted => (result.outcome = "TypeError" /\ result.msg \in UpdateErrors)

C23_UpdateWithNull ==
  /\ call.op = "setOnDisconnectQuery"
  /\ call.admin
  /\ call.method = Str(<<"update">>)
  /\ call.value = null
  /\ call.path = Str(<<"a">>)
  /\ result.outcome = "TypeError"
  /\ result.msg \in UpdateErrors
  /\ "onDisconnect" \in Fs

\* C24: checkPriority follows the priority rule on every input: null gives
\* null; a positive integer n gives n; the string String(n) of a positive
\* integer n gives the number n; 0, negative integers, non-integer numbers, NaN,
\* undefined, booleans, objects, the empty string, strings holding a letter and
\* the strings of 0 and of negative integers are rejected with the TypeError.
PositiveInteger(v) == v.t = "number" /\ v.s = <<>> /\ v.n > 0
NonNumeric(v) ==
  v.t = "string" /\ \E i \in 1..Len(v.s) :
     v.s[i] \notin {DigitChars[d] : d \in 1..Len(DigitChars)} \cup {"-", "+", ".", " "}
NoPriority(v) ==
  \/ v.t \in {"undefined", "boolean", "object", "function"}
  \/ v.t = "number" /\ ~PositiveInteger(v)
  \/ v = Str(<<>>)
  \/ NonNumeric(v)
  \/ \E n \in (0 - 2)..0 : v = Str(String(n))
  \/ v \in {Str(<<"1", ".", "2">>), Str(<<".", "2">>), Str(<<"-", ".", "2">>)}

C24_PriorityRule ==
  call.op = "checkPriority" =>
    /\ call.priority = null => (result.outcome = "ok" /\ result.ret = null)
    /\ PositiveInteger(call.priority) =>
          (result.outcome = "ok" /\ result.ret = call.priority)
    /\ \A n \in 1..MaxPriority :
          call.priority = Str(String(n)) => (result.outcome = "ok" /\ result.ret = Num(n))
    /\ NoPriority(call.priority) => (result.outcome = "TypeError" /\ result.ret = undefined)

C24_StringCoerced ==
  /\ call.op = "checkPriority"
  /\ call.priority = Str(<<"1", "2">>)
  /\ result.outcome = "ok"
  /\ result.ret = Num(12)

\* C25: doWriteQuery with setPriority or setWithPriority and
\* setOnDisconnectQuery with setWithPriority check the priority before they
\* dispatch: with an invalid priority the call fails and issues no backend
\* mutation and no on-disconnect registration, on both backends and for every
\* path and value; with a path the path rule accepts, the failure is the
\* TypeError of the priority check.
PriorityMethod ==
  \/ /\ call.op = "doWriteQuery"
     /\ call.method \in {Str(<<"setPriority">>), Str(<<"setWithPriority">>)}
  \/ /\ call.op = "setOnDisconnectQuery"
     /\ call.method = Str(<<"setWithPriority">>)
PriorityErrors == {"The Priority do not exist!", "The priority must be an INTEGER > 0!"}

C25_PriorityBeforeDispatch ==
  (PriorityMethod /\ NoPriority(call.priority)) =>
    /\ Refused
    /\ Fs \cap Mutations = {}
    /\ PathAccepted => (result.outcome = "TypeError" /\ result.msg \in PriorityErrors)

C25_ZeroPriorityRefused ==
  /\ call.op = "doWriteQuery"
  /\ call.admin
  /\ call.method = Str(<<"setPriority">>)
  /\ call.path = Str(<<"a">>)
  /\ call.priority = Num(0)
  /\ result.outcome = "TypeError"
  /\ result.backend = adminRef(call.path)

\* C26: doSubscriptionQuery followed by doUnSubscriptionQuery with the handle
\* the subscription returned, the same listener kind and the same path, on the
\* same backend, returns normally and leaves no listener attached, for
\* subscriptions made with and without query constraints: no backend-side
\* change can reach the callback afterwards.
C26_UnsubscribeDetaches ==
  [][(/\ call.op = "doSubscriptionQuery"
      /\ result.outcome = "ok"
      /\ last'.op = "doUnSubscriptionQuery"
      /\ call'.admin = call.admin
      /\ call'.callback = result.ret
      /\ call'.method = call.method
      /\ call'.path = call.path) =>
        /\ result'.outcome = "ok"
        /\ attached # {}
        /\ attached' = {}]_vars

C26_ConstrainedDetached ==
  /\ call.op = "doUnSubscriptionQuery"
  /\ call.nth = 2
  /\ ~call.admin
  /\ call.callback = Unsubscribe(Registration(Str(<<"value">>), Str(<<"a">>), Fn("callback"),
                                              <<Call("limitToFirst", <<Num(1)>>)>>))
  /\ call.method = Str(<<"value">>)
  /\ call.path = Str(<<"a">>)
  /\ result.outcome = "ok"
  /\ attached = {}

\* C27: in a range constraint (endAt, endBefore, equalTo, startAfter, startAt)
\* the value must be a string, boolean, number or null and the key, when
\* present, a string: a constraint whose value is missing or of another type,
\* or whose key is present and is no string (null, a number including 0, a
\* boolean including false, an object), makes the call fail, and the constraint
\* is not applied to a backend reference or query.
BadRange(e) ==
  /\ e.method \in RangeMethods
  /\ \/ e.value_value.t \notin {"string", "boolean", "number", "null"}
     \/ e.value_key.t \notin {"undefined", "string"}

C27_RangeValueAndKey ==
  (call.op \in {"doGetQuery", "doSubscriptionQuery"} /\ call.constraints.t = "object") =>
    \A i \in 1..Len(call.constraints.entries) :
      BadRange(call.constraints.entries[i]) =>
        /\ ValidationError
        /\ \A j \in 1..Len(result.backend) :
              result.backend[j].f # call.constraints.entries[i].method

\* the part of C27 that holds: every bad range constraint other than a falsy
\* key is refused by the validation
C27_OtherKeysRefused ==
  (call.op \in {"doGetQuery", "doSubscriptionQuery"} /\ call.constraints.t = "object") =>
    \A i \in 1..Len(call.constraints.entries) :
      (BadRange(call.constraints.entries[i])
         /\ call.constraints.entries[i].value_key \notin {Num(0), Bool(FALSE)}) =>
        /\ Refused
        /\ \A j \in 1..Len(result.backend) :
              result.backend[j].f # call.constraints.entries[i].method

\* C28: no implicit retry and no suppression. No call of doGetQuery,
\* doWriteQuery or setOnDisconnectQuery issues more than one backend operation
\* (fetch or mutation); when the operation it issued fails, the call ends with
\* the backend's failure; and a call with well-formed arguments (a listed
\* method, an acceptable path, well-formed constraints) that the validation let
\* through issues exactly one.
Operations == Fetches \cup Mutations
Issued == {i \in 1..Len(result.backend) : result.backend[i].f \in Operations}
WellFormed ==
  \/ /\ call.op = "doGetQuery"
     /\ RootPathOk
     /\ call.constraints.t \in {"undefined", "object"}
     /\ \A i \in 1..Len(call.constraints.entries) :
           /\ ~BadLimit(call.constraints.entries[i])
           /\ ~BadRange(call.constraints.entries[i])
  \/ /\ call.op \in {"doWriteQuery", "setOnDisconnectQuery"}
     /\ ListedMethod
     /\ PathAccepted

C28_NoRetryNoSuppression ==
  (call.op \in {"doGetQuery", "doWriteQuery", "setOnDisconnectQuery"}) =>
    /\ Cardinality(Issued) <= 1
    /\ (Issued # {} /\ call.fails) => (result.outcome = "BackendError" /\ ~result.sync)
    /\ (Issued # {} /\ ~call.fails) => result.outcome = "ok"
    /\ (WellFormed /\ ~ValidationError) => Cardinality(Issued) = 1

C28_FailureDelivered ==
  /\ call.op = "doWriteQuery"
  /\ call.method = Str(<<"set">>)
  /\ call.path = Str(<<"a">>)
  /\ call.fails
  /\ result.outcome = "BackendError"
  /\ Cardinality(Issued) = 1

\* C29: goOffline is idempotent: a second goOffline() right after the first
\* returns normally and leaves the backend transport offline and the
\* Connection (state, first-connection flag, pending timers, subscription)
\* exactly as the first call left them, and emits nothing.
C29_GoOfflineIdempotent ==
  [][(/\ call.op = "goOffline"
      /\ last.op = "goOffline"
      /\ last'.op = "goOffline"
      /\ call'.nth = call.nth + 1) =>
        /\ result'.outcome = "ok"
        /\ result' = result
        /\ ~online /\ ~online'
        /\ UNCHANGED <<_state, firstConnectionEtablished, timers, timeoutID, armed,
                       subscriptionCallback, listeners, subscribed, trace>>
        /\ emitted' = <<>>]_vars

C29_SecondGoOffline ==
  /\ call.op = "goOffline"
  /\ call.nth = 2
  /\ last.op = "goOffline"
  /\ result.outcome = "ok"
  /\ ~online
  /\ _state = "RE_CONNECTING"
  /\ timers # <<>>

\* the call c, had it been made on the admin (TRUE) or client (FALSE) backend
OnBackend(c, admin, interop) ==
  CASE c.op = "doGetQuery" -> doGetQuery(admin, c.path, c.constraints, c.fails)
    [] c.op = "doSubscriptionQuery" ->
         doSubscriptionQuery(admin, c.method, c.callback, c.path, c.constraints)
    [] c.op = "doUnSubscriptionQuery" ->
         doUnSubscriptionQuery(admin, c.method, c.callback, c.path)
    [] c.op = "doWriteQuery" ->
         doWriteQuery(admin, c.method, c.path, c.value, c.priority, c.fails, interop)
    [] c.op = "setOnDisconnectQuery" ->
         setOnDisconnectQuery(admin, c.method, c.path, c.value, c.priority, c.fails)
ByValidation(res) == res.outcome \in {"TypeError", "Error"}
\* the abstract backend operation of a result: its location, the fetch or
\* mutation with its arguments, the listener kinds registered
Location(res) ==
  LET b == res.backend
      ch == {i \in 1..Len(b) : b[i].f = "child"}
  IN  IF ch # {} THEN b[CHOOSE i \in ch : TRUE].args[1]
      ELSE IF b # <<>> /\ b[1].f = "ref" /\ b[1].args # <<>> THEN b[1].args[1]
      ELSE undefined
IssuedOps(res) == {res.backend[i] : i \in {j \in 1..Len(res.backend) : res.backend[j].f \in Operations}}
Listens(res) ==
  {k \in EventTypes : \E i \in 1..Len(res.backend) :
      \/ res.backend[i].f = ListenerMap[k]
      \/ res.backend[i].f = "on" /\ ToPropertyKey(res.backend[i].args[1]) = <<k>>}
VerdictSame(c) ==
  \A interop \in BOOLEAN :
    ByValidation(OnBackend(c, TRUE, interop)) <=> ByValidation(OnBackend(c, FALSE, interop))
SameOperation(c) ==
  \A interop \in BOOLEAN :
    LET a == OnBackend(c, TRUE, interop)
        k == OnBackend(c, FALSE, interop)
    IN  /\ a.outcome = k.outcome
        /\ ~ByValidation(a) =>
              /\ Location(a) = Location(k)
              /\ IssuedOps(a) = IssuedOps(k)
              /\ Listens(a) = Listens(k)
\* the handle a backend returns for a registration, and what the unsubscription
\* c detaches from the listeners regs on its own backend and, given the handle
\* the other backend returned for the same subscription, on the other one
HandleOn(admin, g) == IF admin THEN g.cb ELSE Unsubscribe(g)
SameDetach(regs, c) ==
  LET p == checkPath(c.path, TRUE).ret
      mine == {g \in regs : HandleOn(c.admin, g) = c.callback}
      other == IF mine = {} THEN c.callback ELSE HandleOn(~c.admin, CHOOSE g \in mine : TRUE)
      ra == doUnSubscriptionQuery(c.admin, c.method, c.callback, c.path)
      rk == doUnSubscriptionQuery(~c.admin, c.method, other, c.path)
      da == IF ra.outcome = "ok"
            THEN detachedBy(c.admin, c.method, c.callback, p, regs) ELSE {}
      dk == IF rk.outcome = "ok"
            THEN detachedBy(~c.admin, c.method, other, p, regs) ELSE {}
  IN  ra.outcome = rk.outcome /\ da = dk
\* the arguments of the call are ones the validation rules accept
WellFormedArgs ==
  \/ WellFormed
  \/ /\ call.op = "doSubscriptionQuery"
     /\ ListedListener
     /\ RootPathOk
     /\ call.constraints.t \in {"undefined", "object"}
     /\ \A i \in 1..Len(call.constraints.entries) :
           /\ ~BadLimit(call.constraints.entries[i])
           /\ ~BadRange(call.constraints.entries[i])
  \/ /\ call.op = "doUnSubscriptionQuery"
     /\ ListedListener
     /\ RootPathOk
     /\ call.callback.t = "function"

\* C30: the Query Engine does not depend on the backend: a call with a listed
\* method or listener kind, an acceptable path and well-formed constraints,
\* whatever its value, priority, callback or handle, is rejected by the
\* validation on the admin backend exactly when it is on the client backend,
\* ends the same way on both, and when accepted results in the same abstract
\* backend operation (kind, location, value, priority; for an unsubscription:
\* the listeners detached) on either backend.
C30_BackendIndependent ==
  [][(last'.op \in PathOps /\ WellFormedArgs') =>
        /\ VerdictSame(call')
        /\ IF call'.op = "doUnSubscriptionQuery"
           THEN SameDetach(attached, call')
           ELSE SameOperation(call')]_vars

\* the part of C30 that holds: the four operations other than the
\* unsubscription agree on both backends for well-formed arguments
C30_AgreeButUnsubscription ==
  [][(last'.op \in PathOps \ {"doUnSubscriptionQuery"} /\ WellFormedArgs') =>
        (VerdictSame(call') /\ SameOperation(call'))]_vars

\* ------------------------------------------------------ client lifecycle
ClientClasses == {"BaseClient", "AdminClient"}
ClientEvents == {"deleting-client", "sign-in", "sign-out", "signed-in", "sign-in-error"}

\* the clientInitialised getter of BaseClient and AdminClient
clientInitialised == appInitialised

\* the fields of a client object as its constructor leaves them
Constructed(class) ==
  /\ clientClass = class
  /\ signState = "NOT_YET"
  /\ appDeleted = FALSE
  /\ pendingSignIns = 0
  /\ IF class = "AdminClient"
       THEN app = "undefined" /\ appInitialised = FALSE /\ initPending = TRUE
       ELSE app = "App" /\ appInitialised = TRUE /\ initPending = FALSE

\* what a step of a client or of the RTDB constructor records about itself
Did(op, arg, res, events, written) ==
  /\ last' = [op |-> op, arg |-> arg]
  /\ result' = res
  /\ emitted' = events
  /\ trace' = trace \o written

\* assignments to _signState and emits, in program order
Assigned(s) == <<<<"signState", s>>>>
Emitted(e) == <<<<"emit", e>>>>
Backend(f) == <<<<"backend", f>>>>

\* AdminClient.initClient, run by the constructor's nextTick: new AdminApp either
\* returns or throws
AdminClient_initClient(success) ==
  /\ clientClass = "AdminClient"
  /\ initPending
  /\ initPending' = FALSE
  /\ signState' = IF success THEN "SIGNED_IN" ELSE "ERROR"
  /\ app' = IF success THEN "AdminApp" ELSE app
  /\ appInitialised' = IF success THEN TRUE ELSE appInitialised
  /\ Did("AdminClient.initClient", IF success THEN "signed-in" ELSE "sign-in-error",
         Result(IF success THEN "ok" ELSE "BackendError", "", FALSE,
                <<Call("initializeApp", <<>>)>>),
         <<"sign-in", IF success THEN "signed-in" ELSE "sign-in-error">>,
         Assigned("SIGN_IN") \o Emitted("sign-in") \o Backend("initializeApp")
           \o Assigned(IF success THEN "SIGNED_IN" ELSE "ERROR")
           \o Emitted(IF success THEN "signed-in" ELSE "sign-in-error"))
  /\ UNCHANGED <<revision, connVars, tickPending, tornDown, call, attached, online,
                 appDeleted, pendingSignIns, wrapped, clientClass, database,
                 signOutPending, orphaned>>

\* RTDB.getDatabase: the guard on clientInitialised
getDatabase ==
  IF ~clientInitialised
    THEN [err |-> "RTDBError", msg |-> "RTDB is called before the Client is initialized"]
    ELSE [err |-> "none", msg |-> ""]

\* an RTDB constructor that makes the Connection before it asks for the database
RTDB_constructor_ConnectionFirst(client) ==
  /\ ~database
  /\ IF client \notin ClientClasses
       THEN /\ Did("RTDB.constructor", client,
                   Result("TypeError", "RTDB must be instantiated with Client as parameter",
                          TRUE, <<>>), <<>>, <<>>)
            /\ UNCHANGED <<database, tickPending>>
       ELSE /\ tickPending' = TRUE
            /\ IF getDatabase.err # "none"
                 THEN /\ Did("RTDB.constructor", client, Thrown(getDatabase, <<>>), <<>>, <<>>)
                      /\ UNCHANGED database
                 ELSE /\ database' = TRUE
                      /\ Did("RTDB.constructor", client,
                             Result("ok", "", TRUE, <<Call("getDatabase", <<>>)>>), <<>>, <<>>)
  /\ UNCHANGED <<revision, connVars, tornDown, call, attached, online, clientVars, wrapped,
                 clientClass, app, appInitialised, initPending, signOutPending, orphaned>>

\* new RTDB(client): the instanceof test, getDatabase(), then new Connection(this),
\* whose constructor schedules subscribeConnectionState with nextTick
RTDB_constructor(client) ==
  /\ ~database
  /\ IF client \notin ClientClasses
       THEN /\ Did("RTDB.constructor", client,
                   Result("TypeError", "RTDB must be instantiated with Client as parameter",
                          TRUE, <<>>), <<>>, <<>>)
            /\ UNCHANGED <<database, tickPending>>
       ELSE IF getDatabase.err # "none"
         THEN /\ Did("RTDB.constructor", client, Thrown(getDatabase, <<>>), <<>>, <<>>)
              /\ UNCHANGED <<database, tickPending>>
         ELSE /\ database' = TRUE
              /\ tickPending' = TRUE
              /\ Did("RTDB.constructor", client,
                     Result("ok", "", TRUE, <<Call("getDatabase", <<>>)>>), <<>>, <<>>)
  /\ UNCHANGED <<revision, connVars, tornDown, call, attached, online, clientVars, wrapped,
                 clientClass, app, appInitialised, initPending, signOutPending, orphaned>>

\* a client object, just constructed or signed in, and no RTDB yet
KInit ==
  /\ revision \in Revisions
  /\ _state = "DISCONNECTED"
  /\ firstConnectionEtablished = FALSE
  /\ subscriptionCallback = Undefined
  /\ timeoutID = Undefined
  /\ listeners = {}
  /\ subscribed = 0
  /\ timers = <<>>
  /\ armed = 0
  /\ tickPending = FALSE
  /\ emitted = <<>>
  /\ last = [op |-> "none", arg |-> "none"]
  /\ tornDown = FALSE
  /\ trace = <<>>
  /\ call = NoCall
  /\ result = NoResult
  /\ attached = {}
  /\ online = TRUE
  /\ wrapped = FALSE
  /\ database = FALSE
  /\ signOutPending = 0
  /\ orphaned = [wrapSignIn |-> 0, initClient |-> 0]
  /\ \E class \in ClientClasses : Constructed(class)

\* the event loop around new RTDB(client)
KNext ==
  \/ \E success \in BOOLEAN : AdminClient_initClient(success)
  \/ \E client \in {clientClass, "Object"} : RTDB_constructor(client)
  \/ NextTick
  \/ \E l \in 1..MaxSubscriptions, val \in SnapshotVal : OnValue(l, val)
  \/ TimerExpire

KSpec == KInit /\ [][KNext]_vars

\* the liveness subscription is scheduled, made, or has been made
LivenessSubscription == tickPending \/ subscribed > 0 \/ listeners # {}

\* C31: an RTDB can only be constructed on an initialised client: if the
\* client's clientInitialised is false when new RTDB(client) runs (an AdminClient
\* whose deferred initClient has not run, or whose initClient failed), the
\* constructor throws, obtains no database handle, creates no Connection and
\* schedules no liveness subscription; and whenever the liveness subscription is
\* scheduled or established the database handle has already been obtained.
C31_ConstructedOnInitialisedClient ==
  /\ [](LivenessSubscription => database)
  /\ [][(last'.op = "RTDB.constructor" /\ last'.arg = clientClass /\ ~clientInitialised) =>
          /\ result'.outcome = "RTDBError"
          /\ result'.backend = <<>>
          /\ UNCHANGED <<connVars, tickPending, database>>]_vars

C31_RefusedBeforeInitClient ==
  /\ clientClass = "AdminClient"
  /\ initPending
  /\ last.op = "RTDB.constructor"
  /\ last.arg = "AdminClient"
  /\ result.outcome = "RTDBError"
  /\ ~database
  /\ ~LivenessSubscription

\* ------------------------------------------- BaseClient, AdminClient, Client
MaxCalls == 4   \* accepted lifecycle calls in one behaviour

\* what no client method touches
rtdbVars == <<revision, connVars, tickPending, tornDown, call, attached, online, database>>
objVars == <<wrapped, clientClass, app, appInitialised, initPending>>

ClientError(msg) == [err |-> "ClientError", msg |-> msg]
NoError == [err |-> "none", msg |-> ""]

Accepted(op) == <<<<"call", op>>>>
Calls == Len(SelectSeq(trace, LAMBDA e: e[1] = "call"))
Awaited == pendingSignIns + orphaned.wrapSignIn

\* the accepted call fits the bounds of the model
CanCall == Calls < MaxCalls
CanAwait == Awaited < MaxPendingSignIns

\* the guards of BaseClient.wrapSignIn
wrapSignInGuard ==
  IF signState = "SIGNED_IN" THEN ClientError("Client already Signed in, Sign out before")
  ELSE IF appDeleted = TRUE THEN ClientError("Client deleted")
  ELSE NoError

\* signOut guards that do not look at the deleted flag
signOutGuard_SignStateOnly ==
  IF signState = "NOT_YET" THEN ClientError("signOut called before signIn call")
  ELSE IF signState = "SIGN_OUT" THEN ClientError("signOut already called")
  ELSE NoError

\* the guards of BaseClient.signOut
signOutGuard ==
  IF signState = "NOT_YET" THEN ClientError("signOut called before signIn call")
  ELSE IF signState = "SIGN_OUT" THEN ClientError("signOut already called")
  ELSE IF appDeleted = TRUE THEN ClientError("Client deleted")
  ELSE NoError

\* the guard of deleteClient, BaseClient and AdminClient alike
deleteClientGuard ==
  IF appDeleted = TRUE THEN ClientError("Client already deleted") ELSE NoError

\* BaseClient.signInAnonymously: wrapSignIn up to its await, that is the guards,
\* emit("sign-in") and the call of signInFn
BaseClient_signInAnonymously ==
  /\ ~wrapped
  /\ clientClass = "BaseClient"
  /\ IF wrapSignInGuard.err # "none"
       THEN /\ Did("BaseClient.signInAnonymously", "refused",
                   Rejected(wrapSignInGuard, <<>>), <<>>, <<>>)
            /\ UNCHANGED pendingSignIns
       ELSE /\ CanCall
            /\ CanAwait
            /\ pendingSignIns' = pendingSignIns + 1
            /\ Did("BaseClient.signInAnonymously", "sign-in",
                   Result("pending", "", FALSE, <<Call("signInAnonymously", <<>>)>>),
                   <<"sign-in">>,
                   Accepted("signIn") \o Emitted("sign-in") \o Backend("signInAnonymously"))
  /\ UNCHANGED <<rtdbVars, objVars, signState, appDeleted, signOutPending, orphaned>>

\* a wrapSignIn whose finally block emits without recording the failure
BaseClient_signInSettled_NoErrorState(success) ==
  /\ clientClass = "BaseClient"
  /\ pendingSignIns > 0
  /\ pendingSignIns' = pendingSignIns - 1
  /\ signState' = IF success THEN "SIGNED_IN" ELSE signState
  /\ Did("BaseClient.wrapSignIn", IF success THEN "signed-in" ELSE "sign-in-error",
         Result(IF success THEN "ok" ELSE "BackendError", "", FALSE, <<>>),
         <<IF success THEN "signed-in" ELSE "sign-in-error">>,
         (IF success THEN Assigned("SIGNED_IN") ELSE <<>>)
           \o Emitted(IF success THEN "signed-in" ELSE "sign-in-error"))
  /\ UNCHANGED <<rtdbVars, objVars, appDeleted, signOutPending, orphaned>>

\* BaseClient.wrapSignIn after its await: signInFn() resolved or rejected
BaseClient_signInSettled(success) ==
  /\ clientClass = "BaseClient"
  /\ pendingSignIns > 0
  /\ pendingSignIns' = pendingSignIns - 1
  /\ signState' = IF success THEN "SIGNED_IN" ELSE "ERROR"
  /\ Did("BaseClient.wrapSignIn", IF success THEN "signed-in" ELSE "sign-in-error",
         Result(IF success THEN "ok" ELSE "BackendError", "", FALSE, <<>>),
         <<IF success THEN "signed-in" ELSE "sign-in-error">>,
         Assigned(IF success THEN "SIGNED_IN" ELSE "ERROR")
           \o Emitted(IF success THEN "signed-in" ELSE "sign-in-error"))
  /\ UNCHANGED <<rtdbVars, objVars, appDeleted, signOutPending, orphaned>>

\* BaseClient.signOut: the guards, then the state, the event and the backend's signOut
BaseClient_signOut ==
  /\ ~wrapped
  /\ clientClass = "BaseClient"
  /\ IF signOutGuard.err # "none"
       THEN /\ Did("BaseClient.signOut", "refused", Thrown(signOutGuard, <<>>), <<>>, <<>>)
            /\ UNCHANGED signState
       ELSE /\ CanCall
            /\ signState' = "SIGN_OUT"
            /\ Did("BaseClient.signOut", "sign-out",
                   Result("ok", "", FALSE, <<Call("signOut", <<>>)>>),
                   <<"sign-out">>,
                   Accepted("signOut") \o Assigned("SIGN_OUT") \o Emitted("sign-out")
                     \o Backend("signOut"))
  /\ UNCHANGED <<rtdbVars, objVars, appDeleted, pendingSignIns, signOutPending, orphaned>>

\* this._app.deleteApp(), which deleteClient returns: nothing to call it on while
\* AdminClient._app is unassigned
deleteApp ==
  IF app = "undefined"
    THEN Result("RuntimeTypeError", "Cannot read properties of undefined", TRUE, <<>>)
    ELSE Result("ok", "", FALSE, <<Call("deleteApp", <<>>)>>)

\* a deleteClient that forgets to set the flag
deleteClient_Unflagged(class) ==
  /\ ~wrapped
  /\ clientClass = class
  /\ IF deleteClientGuard.err # "none"
       THEN Did(class \o ".deleteClient", "refused", Thrown(deleteClientGuard, <<>>),
                <<>>, <<>>)
       ELSE /\ CanCall
            /\ Did(class \o ".deleteClient", "deleting-client", deleteApp,
                   <<"deleting-client">>,
                   Accepted("deleteClient") \o Emitted("deleting-client")
                     \o (IF deleteApp.outcome = "ok" THEN Backend("deleteApp") ELSE <<>>))
  /\ UNCHANGED <<rtdbVars, objVars, appDeleted, signState, pendingSignIns, signOutPending,
                 orphaned>>

\* deleteClient of BaseClient and of AdminClient: the guard, the flag, the event,
\* the app's deleteApp
deleteClient(class) ==
  /\ ~wrapped
  /\ clientClass = class
  /\ IF deleteClientGuard.err # "none"
       THEN /\ Did(class \o ".deleteClient", "refused", Thrown(deleteClientGuard, <<>>),
                   <<>>, <<>>)
            /\ UNCHANGED appDeleted
       ELSE /\ CanCall
            /\ appDeleted' = TRUE
            /\ Did(class \o ".deleteClient", "deleting-client", deleteApp,
                   <<"deleting-client">>,
                   Accepted("deleteClient") \o Emitted("deleting-client")
                     \o (IF deleteApp.outcome = "ok" THEN Backend("deleteApp") ELSE <<>>))
  /\ UNCHANGED <<rtdbVars, objVars, signState, pendingSignIns, signOutPending, orphaned>>

\* ---- Client, first revision (client.ts 37-175): one class, no deleted flag
\* Client.signInAnonymously: the guard of wrapSignIn, then signInFn up to the
\* backend's sign-in, that is initSignIn (new App, the flag, emit("sign-in"))
ClientA_signInAnonymously ==
  /\ ~wrapped
  /\ clientClass = "Client"
  /\ IF signState = "SIGNED_IN"
       THEN /\ Did("Client.signInAnonymously", "refused",
                   Rejected(ClientError("Client already Signed in, Sign out before"), <<>>),
                   <<>>, <<>>)
            /\ UNCHANGED <<pendingSignIns, app, appInitialised>>
       ELSE /\ CanCall
            /\ CanAwait
            /\ app' = "App"
            /\ appInitialised' = TRUE
            /\ pendingSignIns' = pendingSignIns + 1
            /\ Did("Client.signInAnonymously", "sign-in",
                   Result("pending", "", FALSE,
                          <<Call("initializeApp", <<>>), Call("signInAnonymously", <<>>)>>),
                   <<"sign-in">>,
                   Accepted("signIn") \o Backend("initializeApp") \o Emitted("sign-in")
                     \o Backend("signInAnonymously"))
  /\ UNCHANGED <<rtdbVars, wrapped, clientClass, initPending, signState, appDeleted,
                 signOutPending, orphaned>>

\* Client.wrapSignIn after its await: emit("signed-in", success)
ClientA_signInSettled(success) ==
  /\ clientClass = "Client"
  /\ pendingSignIns > 0
  /\ pendingSignIns' = pendingSignIns - 1
  /\ signState' = IF success THEN "SIGNED_IN" ELSE "ERROR"
  /\ Did("Client.wrapSignIn", IF success THEN "true" ELSE "false",
         Result(IF success THEN "ok" ELSE "BackendError", "", FALSE, <<>>),
         <<"signed-in">>,
         Assigned(IF success THEN "SIGNED_IN" ELSE "ERROR") \o Emitted("signed-in")
           \o <<<<"arg", IF success THEN "true" ELSE "false">>>>)
  /\ UNCHANGED <<rtdbVars, objVars, appDeleted, signOutPending, orphaned>>

\* Client.signInWithPrivateKey and signInWithServiceAccountId: no guard; initSignIn
\* (new AdminApp returns or throws), then the state and emit("signed-in", success)
ClientA_signInAdmin(method, success) ==
  /\ ~wrapped
  /\ clientClass = "Client"
  /\ CanCall
  /\ signState' = IF success THEN "SIGNED_IN" ELSE "ERROR"
  /\ app' = IF success THEN "AdminApp" ELSE app
  /\ appInitialised' = IF success THEN TRUE ELSE appInitialised
  /\ Did("Client." \o method, IF success THEN "true" ELSE "false",
         Result(IF success THEN "ok" ELSE "BackendError", "", TRUE,
                <<Call("initializeApp", <<>>)>>),
         IF success THEN <<"sign-in", "signed-in">> ELSE <<"signed-in">>,
         Accepted("signIn") \o Backend("initializeApp")
           \o (IF success THEN Emitted("sign-in") ELSE <<>>)
           \o Assigned(IF success THEN "SIGNED_IN" ELSE "ERROR") \o Emitted("signed-in")
           \o <<<<"arg", IF success THEN "true" ELSE "false">>>>)
  /\ UNCHANGED <<rtdbVars, wrapped, clientClass, initPending, appDeleted, pendingSignIns,
                 signOutPending, orphaned>>

\* Client.signOut: the guards, the state, the event; then the backend's signOut
\* unless the app is an AdminApp, and the app's deleteApp once that has resolved
\* (the part after the await writes no field of the Client)
ClientA_signOut(fails) ==
  /\ ~wrapped
  /\ clientClass = "Client"
  /\ IF signState = "NOT_YET"
       THEN /\ Did("Client.signOut", "refused",
                   Rejected(ClientError("signOut called before signIn call"), <<>>),
                   <<>>, <<>>)
            /\ UNCHANGED signState
     ELSE IF signState = "SIGN_OUT"
       THEN /\ Did("Client.signOut", "refused",
                   Rejected(ClientError("signOut already called"), <<>>), <<>>, <<>>)
            /\ UNCHANGED signState
       ELSE /\ CanCall
            /\ signState' = "SIGN_OUT"
            /\ LET out == IF app = "AdminApp" THEN <<>> ELSE <<"signOut">>
                   del == IF app = "undefined" \/ (app = "App" /\ fails)
                            THEN <<>> ELSE <<"deleteApp">>
                   calls == out \o del
               IN  Did("Client.signOut", "sign-out",
                       Result(IF app = "App" /\ fails THEN "BackendError" ELSE "ok", "",
                              FALSE, [i \in 1..Len(calls) |-> Call(calls[i], <<>>)]),
                       <<"sign-out">>,
                       Accepted("signOut") \o Assigned("SIGN_OUT") \o Emitted("sign-out")
                         \o [i \in 1..Len(calls) |-> <<"backend", calls[i]>>])
  /\ UNCHANGED <<rtdbVars, objVars, appDeleted, pendingSignIns, signOutPending, orphaned>>

\* ---- Client, second revision (client.ts 202-300): holds a BaseClient or an
\* AdminClient and forwards its events
\* the signState getter: this.client?.signState || SignState.NOT_YET, where
\* NOT_YET (0) is the one falsy member
Client_signState == IF clientClass = "undefined" THEN "NOT_YET" ELSE signState

\* the guard of every signIn* method
signInGuard ==
  IF Client_signState = "SIGNED_IN"
    THEN ClientError("Client already Signed in, Sign out before")
    ELSE NoError

\* this.client = new ...: the sign-ins awaited on the old client go on without it
Replaced ==
  orphaned' = [wrapSignIn |-> orphaned.wrapSignIn + pendingSignIns,
               initClient |-> orphaned.initClient + (IF initPending THEN 1 ELSE 0)]

\* Client.signInAnonymously: the guard, a new BaseClient, its signInAnonymously
ClientB_signInAnonymously ==
  /\ wrapped
  /\ IF signInGuard.err # "none"
       THEN /\ Did("Client.signInAnonymously", "refused", Thrown(signInGuard, <<>>),
                   <<>>, <<>>)
            /\ UNCHANGED <<clientClass, app, appInitialised, initPending, signState,
                           appDeleted, pendingSignIns, orphaned>>
       ELSE /\ CanCall
            /\ CanAwait
            /\ clientClass' = "BaseClient"
            /\ app' = "App"
            /\ appInitialised' = TRUE
            /\ initPending' = FALSE
            /\ signState' = "NOT_YET"
            /\ appDeleted' = FALSE
            /\ pendingSignIns' = 1
            /\ Replaced
            /\ Did("Client.signInAnonymously", "sign-in",
                   Result("pending", "", FALSE,
                          <<Call("initializeApp", <<>>), Call("signInAnonymously", <<>>)>>),
                   <<"sign-in">>,
                   Accepted("signIn") \o <<<<"new", "BaseClient">>>>
                     \o Backend("initializeApp") \o Emitted("sign-in")
                     \o Backend("signInAnonymously"))
  /\ UNCHANGED <<rtdbVars, wrapped, signOutPending>>

\* Client.signInWithPrivateKey and signInWithServiceAccountId: the guard, then a
\* new AdminClient, which defers its initClient
ClientB_signInAdmin(method) ==
  /\ wrapped
  /\ IF signInGuard.err # "none"
       THEN /\ Did("Client." \o method, "refused", Thrown(signInGuard, <<>>), <<>>, <<>>)
            /\ UNCHANGED <<clientClass, app, appInitialised, initPending, signState,
                           appDeleted, pendingSignIns, orphaned>>
       ELSE /\ CanCall
            /\ clientClass' = "AdminClient"
            /\ app' = "undefined"
            /\ appInitialised' = FALSE
            /\ initPending' = TRUE
            /\ signState' = "NOT_YET"
            /\ appDeleted' = FALSE
            /\ pendingSignIns' = 0
            /\ Replaced
            /\ Did("Client." \o method, "accepted", Result("ok", "", TRUE, <<>>), <<>>,
                   Accepted("signIn") \o <<<<"new", "AdminClient">>>>)
  /\ UNCHANGED <<rtdbVars, wrapped, signOutPending>>

\* the guards of Client.signOut
ClientB_signOutGuard ==
  IF Client_signState = "NOT_YET" THEN ClientError("signOut called before signIn call")
  ELSE IF Client_signState = "SIGN_OUT" THEN ClientError("signOut already called")
  ELSE IF clientClass = "undefined" THEN ClientError("Client to delete missing")
  ELSE NoError

\* this.client.deleteClient() as the last statement of Client.signOut
ClientB_deleteClient(op, called) ==
  IF deleteClientGuard.err # "none"
    THEN /\ Did(op, "rejected", Rejected(deleteClientGuard, <<>>), <<>>, <<>>)
         /\ UNCHANGED appDeleted
    ELSE /\ appDeleted' = TRUE
         /\ Did(op, "deleting-client",
                [deleteApp EXCEPT !.sync = FALSE], <<"deleting-client">>,
                called \o Emitted("deleting-client")
                  \o (IF deleteApp.outcome = "ok" THEN Backend("deleteApp") ELSE <<>>))

\* Client.signOut up to its await: the guards, the admin getter (which reads
\* AdminClient._app.admin), then the BaseClient's signOut, or for an admin
\* client deleteClient at once
ClientB_signOut ==
  /\ wrapped
  /\ IF ClientB_signOutGuard.err # "none"
       THEN /\ Did("Client.signOut", "refused", Rejected(ClientB_signOutGuard, <<>>),
                   <<>>, <<>>)
            /\ UNCHANGED <<signState, appDeleted, signOutPending>>
     ELSE IF clientClass = "AdminClient" /\ app = "undefined"
       THEN /\ Did("Client.signOut", "rejected",
                   Result("RuntimeTypeError", "Cannot read properties of undefined", FALSE,
                          <<>>), <<>>, <<>>)
            /\ UNCHANGED <<signState, appDeleted, signOutPending>>
     ELSE IF clientClass = "AdminClient"
       THEN /\ deleteClientGuard.err = "none" => CanCall
            /\ ClientB_deleteClient("Client.signOut", Accepted("signOut"))
            /\ UNCHANGED <<signState, signOutPending>>
     ELSE IF signOutGuard.err # "none"
       THEN /\ Did("Client.signOut", "rejected", Rejected(signOutGuard, <<>>), <<>>, <<>>)
            /\ UNCHANGED <<signState, appDeleted, signOutPending>>
       ELSE /\ CanCall
            /\ signState' = "SIGN_OUT"
            /\ signOutPending' = signOutPending + 1
            /\ Did("Client.signOut", "sign-out",
                   Result("pending", "", FALSE, <<Call("signOut", <<>>)>>),
                   <<"sign-out">>,
                   Accepted("signOut") \o Assigned("SIGN_OUT") \o Emitted("sign-out")
                     \o Backend("signOut"))
            /\ UNCHANGED appDeleted
  /\ UNCHANGED <<rtdbVars, objVars, pendingSignIns, orphaned>>

\* Client.signOut after its await: the backend's signOut resolved or rejected
ClientB_signOutResumed(fails) ==
  /\ wrapped
  /\ signOutPending > 0
  /\ signOutPending' = signOutPending - 1
  /\ IF fails
       THEN /\ Did("Client.signOut resumed", "rejected",
                   Result("BackendError", "", FALSE, <<>>), <<>>, <<>>)
            /\ UNCHANGED appDeleted
       ELSE ClientB_deleteClient("Client.signOut resumed", <<>>)
  /\ UNCHANGED <<rtdbVars, objVars, signState, pendingSignIns, orphaned>>

\* a sign-in awaited on a replaced BaseClient settles: its events are forwarded
ClientB_orphanSettled(success) ==
  /\ wrapped
  /\ orphaned.wrapSignIn > 0
  /\ orphaned' = [orphaned EXCEPT !.wrapSignIn = @ - 1]
  /\ Did("BaseClient.wrapSignIn", "replaced",
         Result(IF success THEN "ok" ELSE "BackendError", "", FALSE, <<>>),
         <<IF success THEN "signed-in" ELSE "sign-in-error">>,
         <<<<"old", "BaseClient">>>>
           \o Emitted(IF success THEN "signed-in" ELSE "sign-in-error"))
  /\ UNCHANGED <<rtdbVars, objVars, clientVars, signOutPending>>

\* the deferred initClient of a replaced AdminClient runs
ClientB_orphanInit(success) ==
  /\ wrapped
  /\ orphaned.initClient > 0
  /\ orphaned' = [orphaned EXCEPT !.initClient = @ - 1]
  /\ Did("AdminClient.initClient", "replaced",
         Result(IF success THEN "ok" ELSE "BackendError", "", FALSE,
                <<Call("initializeApp", <<>>)>>),
         <<"sign-in", IF success THEN "signed-in" ELSE "sign-in-error">>,
         <<<<"old", "AdminClient">>>> \o Emitted("sign-in") \o Backend("initializeApp")
           \o Emitted(IF success THEN "signed-in" ELSE "sign-in-error"))
  /\ UNCHANGED <<rtdbVars, objVars, clientVars, signOutPending>>

AdminMethods == {"signInWithPrivateKey", "signInWithServiceAccountId"}

\* a client object just constructed: a BaseClient, an AdminClient or a Client of
\* either revision; no RTDB
CInit ==
  /\ revision = "A"
  /\ _state = "DISCONNECTED"
  /\ firstConnectionEtablished = FALSE
  /\ subscriptionCallback = Undefined
  /\ timeoutID = Undefined
  /\ listeners = {}
  /\ subscribed = 0
  /\ timers = <<>>
  /\ armed = 0
  /\ tickPending = FALSE
  /\ emitted = <<>>
  /\ last = [op |-> "none", arg |-> "none"]
  /\ tornDown = FALSE
  /\ trace = <<>>
  /\ call = NoCall
  /\ result = NoResult
  /\ attached = {}
  /\ online = TRUE
  /\ database = FALSE
  /\ signOutPending = 0
  /\ orphaned = [wrapSignIn |-> 0, initClient |-> 0]
  /\ \/ wrapped = FALSE /\ \E class \in ClientClasses : Constructed(class)
     \/ /\ wrapped \in BOOLEAN
        /\ clientClass = IF wrapped THEN "undefined" ELSE "Client"
        /\ signState = "NOT_YET"
        /\ appDeleted = FALSE
        /\ pendingSignIns = 0
        /\ app = "undefined"
        /\ appInitialised = FALSE
        /\ initPending = FALSE

\* every public call and every continuation of the client classes
CNext ==
  \/ BaseClient_signInAnonymously
  \/ \E success \in BOOLEAN : BaseClient_signInSettled(success)
  \/ BaseClient_signOut
  \/ \E class \in ClientClasses : deleteClient(class)
  \/ \E success \in BOOLEAN : AdminClient_initClient(success)
  \/ ClientA_signInAnonymously
  \/ \E success \in BOOLEAN : ClientA_signInSettled(success)
  \/ \E method \in AdminMethods, success \in BOOLEAN : ClientA_signInAdmin(method, success)
  \/ \E fails \in BOOLEAN : ClientA_signOut(fails)
  \/ ClientB_signInAnonymously
  \/ \E method \in AdminMethods : ClientB_signInAdmin(method)
  \/ ClientB_signOut
  \/ \E fails \in BOOLEAN : ClientB_signOutResumed(fails)
  \/ \E success \in BOOLEAN : ClientB_orphanSettled(success)
  \/ \E success \in BOOLEAN : ClientB_orphanInit(success)

CSpec == CInit /\ [][CNext]_vars

\* ------------------------------------------------ reading a client's trace
\* the value of _signState when the i-th entry of the trace was written
StateAt(i) ==
  LET before == {j \in 1..(i - 1) : trace[j][1] = "signState"}
  IN  IF before = {} THEN "NOT_YET"
      ELSE trace[CHOOSE j \in before : \A k \in before : k <= j][2]

\* how many of the first n entries of the trace emit the event e
EmittedBy(n, e) == Cardinality({i \in 1..n : trace[i] = <<"emit", e>>})
BackendCalls(f) == Cardinality({i \in 1..Len(trace) : trace[i] = <<"backend", f>>})

\* the object under test is one BaseClient or one AdminClient, called directly
OneClient == ~wrapped /\ clientClass \in ClientClasses
SettleOps == {"BaseClient.wrapSignIn", "AdminClient.initClient"}

\* C32: on a BaseClient or an AdminClient every sign-in attempt that passes the
\* guards emits "sign-in" first and then exactly one of "signed-in" and
\* "sign-in-error": an end event never outruns the "sign-in" events, and the
\* attempts started are those still awaited plus those ended. When an attempt
\* ends, signState is SIGNED_IN if it succeeded and ERROR otherwise, and
\* "signed-in" is only emitted while signState is SIGNED_IN ("sign-in-error" while
\* it is ERROR).
C32_SignInEvents ==
  OneClient =>
    /\ \A n \in 0..Len(trace) :
         EmittedBy(n, "signed-in") + EmittedBy(n, "sign-in-error") <= EmittedBy(n, "sign-in")
    /\ EmittedBy(Len(trace), "sign-in") =
         EmittedBy(Len(trace), "signed-in") + EmittedBy(Len(trace), "sign-in-error")
           + pendingSignIns
    /\ \A i \in 1..Len(trace) :
         /\ trace[i] = <<"emit", "signed-in">> => StateAt(i) = "SIGNED_IN"
         /\ trace[i] = <<"emit", "sign-in-error">> => StateAt(i) = "ERROR"
    /\ last.op \in SettleOps =>
         /\ emitted[Len(emitted)] = (IF result.outcome = "ok" THEN "signed-in" ELSE "sign-in-error")
         /\ signState = (IF result.outcome = "ok" THEN "SIGNED_IN" ELSE "ERROR")

C32_FailureAfterSuccess ==
  /\ OneClient
  /\ clientClass = "BaseClient"
  /\ last.op = "BaseClient.wrapSignIn"
  /\ result.outcome = "BackendError"
  /\ signState = "ERROR"
  /\ EmittedBy(Len(trace), "signed-in") = 1
  /\ EmittedBy(Len(trace), "sign-in-error") = 1
  /\ EmittedBy(Len(trace), "sign-in") = 2

\* the sign state a call's guard reads: the Client of the second revision reads
\* it through its getter
StateSeen == IF wrapped THEN Client_signState ELSE signState
SignOutCalled == last'.op \in {"BaseClient.signOut", "Client.signOut"}
GuardedSignInCalled ==
  \/ last'.op \in {"BaseClient.signInAnonymously", "Client.signInAnonymously"}
  \/ wrapped /\ last'.op \in {"Client." \o m : m \in AdminMethods}
OnBaseClient == last'.op \in {"BaseClient.signOut", "BaseClient.signInAnonymously"}

\* the call made by this step meets a state guard
RefusedByGuard ==
  \/ SignOutCalled /\ StateSeen \in {"NOT_YET", "SIGN_OUT"}
  \/ OnBaseClient /\ appDeleted
  \/ GuardedSignInCalled /\ StateSeen = "SIGNED_IN"

\* C33: a lifecycle call that meets a state guard has no effect: a signOut before
\* any sign-in, a signOut after a signOut, a signOut or a sign-in on a deleted
\* BaseClient, and a guarded sign-in while signState is SIGNED_IN each end in a
\* ClientError, leave signState, the deleted flag and every other field of the
\* client unchanged, emit no event and make no backend call.
C33_RefusedCallsHaveNoEffect ==
  [][RefusedByGuard =>
       /\ result'.outcome = "ClientError"
       /\ result'.backend = <<>>
       /\ emitted' = <<>>
       /\ trace' = trace
       /\ UNCHANGED <<clientVars, lifeVars>>]_vars

C33_SignInOnDeletedClient ==
  /\ clientClass = "BaseClient"
  /\ ~wrapped
  /\ appDeleted
  /\ signState = "SIGN_OUT"
  /\ last.op = "BaseClient.signInAnonymously"
  /\ result.outcome = "ClientError"
  /\ result.msg = "Client deleted"

DeleteClientCalled == last'.op \in {"BaseClient.deleteClient", "AdminClient.deleteClient"}

\* C34: a BaseClient or an AdminClient is deleted at most once: over any
\* sequence of calls "deleting-client" is emitted at most once (exactly when the
\* deleted flag is set) and the app's deleteApp is called at most once; every
\* deleteClient call made once the flag is set throws "Client already deleted",
\* emits nothing and calls no backend; and clientDeleted never goes back from
\* true to false.
C34_DeletedAtMostOnce ==
  /\ [](OneClient =>
          /\ EmittedBy(Len(trace), "deleting-client") = (IF appDeleted THEN 1 ELSE 0)
          /\ BackendCalls("deleteApp") <= EmittedBy(Len(trace), "deleting-client"))
  /\ [][(OneClient /\ appDeleted) =>
          /\ appDeleted'
          /\ DeleteClientCalled =>
               /\ result'.outcome = "ClientError"
               /\ result'.msg = "Client already deleted"
               /\ result'.backend = <<>>
               /\ emitted' = <<>>
               /\ trace' = trace]_vars

C34_SecondDeleteRefused ==
  /\ OneClient
  /\ clientClass = "AdminClient"
  /\ appDeleted
  /\ last.op = "AdminClient.deleteClient"
  /\ result.msg = "Client already deleted"
  /\ BackendCalls("deleteApp") = 1
  /\ EmittedBy(Len(trace), "deleting-client") = 1

\* the sign-in attempts of a BaseClient still awaited after the first n entries
PendingAt(n) ==
  EmittedBy(n, "sign-in") - EmittedBy(n, "signed-in") - EmittedBy(n, "sign-in-error")

\* how many of the entries from..Len(trace) are the entry e
Since(from, e) == Cardinality({i \in from..Len(trace) : trace[i] = e})

\* the i-th entry is a sign-in call accepted while an earlier one is awaited
Overlapping(i) == trace[i] = <<"call", "signIn">> /\ PendingAt(i - 1) > 0

\* the first entry of the stretch of awaited sign-ins the i-th entry lies in
Busy(i) == 1 + CHOOSE b \in 0..(i - 1) :
                 /\ PendingAt(b) = 0
                 /\ \A k \in (b + 1)..(i - 1) : PendingAt(k) > 0

\* C35: overlapping sign-in calls on one BaseClient do not both complete a
\* sign-in: when a sign-in call is started while an earlier one is still
\* awaiting the backend, then from the earlier call on and until a sign-out,
\* "signed-in" is emitted at most once and at most one backend sign-in is
\* performed.
C35_OverlappingSignInsComplete ==
  (OneClient /\ clientClass = "BaseClient") =>
    \A i \in 1..Len(trace) :
      (Overlapping(i) /\ Since(Busy(i), <<"call", "signOut">>) = 0) =>
        /\ Since(Busy(i), <<"emit", "signed-in">>) <= 1
        /\ Since(Busy(i), <<"backend", "signInAnonymously">>) <= 1

\* the last entry of the trace that records an accepted signOut call (0: none)
LastSignOut ==
  LET outs == {i \in 1..Len(trace) : trace[i] = <<"call", "signOut">>}
  IN  IF outs = {} THEN 0 ELSE CHOOSE i \in outs : \A j \in outs : j <= i

\* nothing else ran on the client while that signOut was in progress: no sign-in
\* settled and no client object was made
Undisturbed ==
  \A i \in (LastSignOut + 1)..Len(trace) :
    /\ trace[i][1] # "new"
    /\ trace[i][1] = "signState" => trace[i][2] = "SIGN_OUT"

\* a Client.signOut() of the second revision has just completed
SignOutCompleted ==
  /\ wrapped
  /\ last.op \in {"Client.signOut", "Client.signOut resumed"}
  /\ result.outcome = "ok"
  /\ Undisturbed

SignStateRefusals == {"signOut called before signIn call", "signOut already called"}

\* C36: after Client.signOut() has completed, the Client is signed out, for an
\* admin session (signInWithPrivateKey, signInWithServiceAccountId) as for a
\* client session: signState is not SIGNED_IN, a signIn* call made next is not
\* refused with "Client already Signed in, Sign out before", and a signOut made
\* next is refused by the sign-state guard.
C36_SignedOutAfterSignOut ==
  /\ [](SignOutCompleted => Client_signState # "SIGNED_IN")
  /\ [][(SignOutCompleted /\ GuardedSignInCalled) => result'.outcome # "ClientError"]_vars
  /\ [][(SignOutCompleted /\ last'.op = "Client.signOut" /\ last' # last) =>
          /\ result'.outcome = "ClientError"
          /\ result'.msg \in SignStateRefusals]_vars

\* the part of C36 that holds: the same for a client session
C36_ClientSessionSignedOut ==
  /\ []((SignOutCompleted /\ clientClass = "BaseClient") => Client_signState = "SIGN_OUT")
  /\ [][(SignOutCompleted /\ clientClass = "BaseClient" /\ GuardedSignInCalled) =>
          result'.outcome # "ClientError"]_vars
  /\ [][(SignOutCompleted /\ clientClass = "BaseClient" /\ last'.op = "Client.signOut"
           /\ last' # last) =>
          /\ result'.outcome = "ClientError"
          /\ result'.msg = "signOut already called"]_vars

C36_ClientSignOutCompleted ==
  /\ SignOutCompleted
  /\ clientClass = "BaseClient"
  /\ last.op = "Client.signOut resumed"
  /\ appDeleted
====
